---------------------------- MODULE Spec2Model ----------------------------
(***************************************************************************)
(* A model of koa-express-router: Router.handle / router_next /            *)
(* trim_prefix / process_params (lib/index.js), Route.dispatch / routeNext *)
(* (lib/Route.js) and Layer.match / queryMatch / handle_request            *)
(* (lib/Layer.js).                                                         *)
(*                                                                         *)
(* Strings are sequences of one-character strings, indexed from 0 by the   *)
(* helpers below the way JavaScript indexes them.  User code (middleware,  *)
(* route handlers, parameter callbacks) is an action that picks what the   *)
(* function does with its continuation: call it with no signal, call it    *)
(* with 'route' or 'router', or never call it.                             *)
(***************************************************************************)
EXTENDS Integers, Sequences, FiniteSets, TLC

(***************************************************************************)
(* JavaScript string primitives on character sequences.                    *)
(***************************************************************************)
Undef == "undefined"

\* s[i]: the character at 0-based index i, undefined outside the string
CharAt(s, i) == IF i >= 0 /\ i < Len(s) THEN s[i + 1] ELSE Undef

\* s.substr(start) for start >= 0
SubstrFrom(s, start) == SubSeq(s, start + 1, Len(s))

\* s.substr(0, n) / s.substring(0, n): a negative n yields the empty string
SubstrTo(s, n) == IF n <= 0 THEN <<>> ELSE SubSeq(s, 1, IF n > Len(s) THEN Len(s) ELSE n)

\* s.substring(from, to) for 0 <= from
Slice(s, from, to) == SubSeq(s, from + 1, IF to > Len(s) THEN Len(s) ELSE to)

\* s.indexOf(c, from) for a single character c: 0-based index or -1
RECURSIVE IndexOfFrom(_, _, _)
IndexOfFrom(s, c, from) ==
    IF from >= Len(s) THEN -1
    ELSE IF s[from + 1] = c THEN from
    ELSE IndexOfFrom(s, c, from + 1)

IndexOf(s, c) == IndexOfFrom(s, c, 0)

\* s.indexOf(sub) for a string sub: 0-based index of the first occurrence or -1
RECURSIVE IndexOfSubFrom(_, _, _)
IndexOfSubFrom(s, sub, from) ==
    IF from + Len(sub) > Len(s) THEN -1
    ELSE IF SubSeq(s, from + 1, from + Len(sub)) = sub THEN from
    ELSE IndexOfSubFrom(s, sub, from + 1)

IndexOfSub(s, sub) == IndexOfSubFrom(s, sub, 0)

StartsWith(s, pre) == Len(pre) <= Len(s) /\ SubSeq(s, 1, Len(pre)) = pre

\* arr.indexOf(x) !== -1
SeqHas(seq, x) == \E i \in 1..Len(seq) : seq[i] = x


(***************************************************************************)
(* Undefined values.  A string-valued field that is undefined is the       *)
(* one-element sequence <<Undef>> (no string of the model holds a          *)
(* character of more than one letter); ctx.params undefined is NoParams.   *)
(***************************************************************************)
UndefStr == <<Undef>>
NoParams == [n \in {Undef} |-> <<>>]
EmptyParams == [n \in {} |-> <<>>]
None == "none"

(***************************************************************************)
(* getProtohost (lib/index.js 577-591), with the `|| ''` of line 143.      *)
(***************************************************************************)
getProtohost(url) ==
    IF url = UndefStr \/ Len(url) = 0 \/ url[1] = "/" THEN <<>>
    ELSE LET searchIndex == IndexOf(url, "?")
             pathLength == IF searchIndex # -1 THEN searchIndex ELSE Len(url)
             fqdnIndex == IndexOfSub(SubstrTo(url, pathLength), <<":", "/", "/">>)
         IN  IF fqdnIndex # -1
             THEN SubstrTo(url, IndexOfFrom(url, "/", 3 + fqdnIndex))
             ELSE <<>>

(***************************************************************************)
(* getPathname (lib/index.js 568-574): parseurl(ctx).pathname.  parseurl   *)
(* cuts a url that starts with "/" at its first "?", and hands every other *)
(* url to Node's url.parse: an optional scheme ([a-z0-9.+-]+ and ":"),     *)
(* after "//" a host that ends at the first "/" or "?", then the pathname  *)
(* up to the "?".  An empty pathname is null, except that a url with an    *)
(* http-like scheme and a host has the pathname "/".  The scheme of the    *)
(* model's urls is "h", standing for http.                                 *)
(***************************************************************************)
NullPath == UndefStr

ProtoChars == {"a", "b", "c", "e", "h", "u", "v", "x", ".", "+", "-"}

UpToQuery(s) ==
    LET q == IndexOf(s, "?") IN IF q = -1 THEN s ELSE SubstrTo(s, q)

HostEnd(s) ==
    LET sl == IndexOf(s, "/")
        qm == IndexOf(s, "?")
    IN  IF sl = -1 /\ qm = -1 THEN Len(s)
        ELSE IF sl = -1 THEN qm
        ELSE IF qm = -1 THEN sl
        ELSE IF sl < qm THEN sl ELSE qm

UrlParsePathname(str) ==
    LET colon == IndexOf(str, ":")
        hasProto == colon > 0 /\ \A i \in 1..colon : str[i] \in ProtoChars
        rest0 == IF hasProto THEN SubstrFrom(str, colon + 1) ELSE str
        slashes == hasProto /\ StartsWith(rest0, <<"/", "/">>)
        rest1 == IF slashes THEN SubstrFrom(rest0, 2) ELSE rest0
        hostLen == IF slashes THEN HostEnd(rest1) ELSE 0
        rest2 == SubstrFrom(rest1, hostLen)
        pathname == UpToQuery(rest2)
    IN  IF Len(pathname) > 0 THEN pathname
        ELSE IF slashes /\ hostLen > 0 THEN <<"/">>
        ELSE NullPath

getPathname(url) ==
    IF url = UndefStr \/ Len(url) = 0 THEN NullPath
    ELSE IF url[1] = "/" THEN UpToQuery(url)
    ELSE UrlParsePathname(url)

(***************************************************************************)
(* The path matcher (path-to-regexp, called at lib/Layer.js 54).  A        *)
(* pattern of the model is "/"-separated segments, each a literal or       *)
(* ":n" with a one-letter name n, with an optional trailing "/".  Its      *)
(* regular expression is  ^ (\/seg)* \/? $  when end is true and           *)
(* ^ (\/seg)* \/? (?=\/|$)  when end is false, where a ":n" segment is the *)
(* capture ([^\/]+?).                                                      *)
(***************************************************************************)
RECURSIVE SegsFrom(_, _)
SegsFrom(s, pos) ==
    IF pos >= Len(s) THEN <<>>
    ELSE LET n == IndexOfFrom(s, "/", pos)
             e == IF n = -1 THEN Len(s) ELSE n
             tok == Slice(s, pos, e)
         IN  (IF tok = <<>> THEN <<>> ELSE <<tok>>) \o SegsFrom(s, e + 1)

PatternSegs(pattern) == SegsFrom(pattern, 0)

IsParamSeg(seg) == Len(seg) = 2 /\ seg[1] = ":"

\* layer.keys: the capture names in declaration order
RECURSIVE KeysOfSegs(_)
KeysOfSegs(segs) ==
    IF segs = <<>> THEN <<>>
    ELSE (IF IsParamSeg(Head(segs)) THEN <<Head(segs)[2]>> ELSE <<>>)
         \o KeysOfSegs(Tail(segs))

LayerKeys(pattern) ==
    IF pattern = <<"*">> THEN <<"0">> ELSE KeysOfSegs(PatternSegs(pattern))

NoMatch == [ok |-> FALSE, len |-> 0, caps |-> <<>>]

RECURSIVE MatchSegs(_, _, _, _, _)
MatchSegs(segs, k, path, pos, caps) ==
    IF k > Len(segs) THEN [ok |-> TRUE, len |-> pos, caps |-> caps]
    ELSE IF CharAt(path, pos) # "/" THEN NoMatch
    ELSE LET n == IndexOfFrom(path, "/", pos + 1)
             e == IF n = -1 THEN Len(path) ELSE n
             tok == Slice(path, pos + 1, e)
         IN  IF IsParamSeg(segs[k])
             THEN IF tok = <<>> THEN NoMatch
                  ELSE MatchSegs(segs, k + 1, path, e, Append(caps, tok))
             ELSE IF tok = segs[k] THEN MatchSegs(segs, k + 1, path, e, caps)
             ELSE NoMatch

\* a path given as a regular expression (Router.use, lib/index.js 441: `one
\* instanceof RegExp`), which the matcher takes as it is: the model's are
\* /^prefix/, written "^" and the prefix, with no group
IsRegExp(pattern) == pattern # <<>> /\ pattern[1] = "^"

\* regexp.exec(path): match[0] has length len, match[1..] are caps
RegexpExec(pattern, end, path) ==
    LET m == MatchSegs(PatternSegs(pattern), 1, path, 0, <<>>)
        rest == IF m.ok THEN SubstrFrom(path, m.len) ELSE <<>>
    IN  IF IsRegExp(pattern)
        THEN IF StartsWith(path, Tail(pattern))
             THEN [ok |-> TRUE, len |-> Len(pattern) - 1, caps |-> <<>>]
             ELSE NoMatch
        ELSE IF ~m.ok THEN NoMatch
        ELSE IF rest = <<>> THEN m
        ELSE IF rest[1] # "/" THEN NoMatch
        ELSE IF Len(rest) = 1 THEN [m EXCEPT !.len = m.len + 1]
        ELSE IF end THEN NoMatch
        ELSE IF rest[2] = "/" THEN [m EXCEPT !.len = m.len + 1]
        ELSE m

(***************************************************************************)
(* Layer (lib/Layer.js).  A layer of a Router's stack is the record        *)
(*   [path, end, query, isRoute, mount, methods, stack]                    *)
(* path: the pattern; end: the matcher's `end` option (false for use,      *)
(* true for route); query: the query condition; isRoute: layer.route is    *)
(* set; mount: the Router whose routes() middleware is the handler (0: a   *)
(* plain middleware); methods, stack: route.methods (keys in insertion     *)
(* order) and route.stack, each of whose layers is [method, query].        *)
(*                                                                         *)
(* A query condition is a sequence of [key, kind, accept]: the declared    *)
(* keys in order, and per key the set of actual values its comparator      *)
(* accepts (a string: itself; an array: its elements; a regular expression *)
(* or a function: the values it accepts).  No condition is <<>>.           *)
(***************************************************************************)
NoQuery == <<>>

\* String(actual): what RegExp.prototype.exec and JSON.parse make of their
\* argument first; undefined becomes the text "undefined"
UndefinedText == <<"u", "n", "d", "e", "f", "i", "n", "e", "d">>
ToText(actual) == IF actual = UndefStr THEN UndefinedText ELSE actual

EndsWith(s, suf) ==
    Len(suf) <= Len(s) /\ SubSeq(s, Len(s) - Len(suf) + 1, Len(s)) = suf

\* the regular expressions of the conditions: /source/ and /source$/ for a
\* literal source, without the g and y flags; exec() of one yields a match
\* (truthy) or null
RegExp_exec(re, text) ==
    IF re.anchored THEN EndsWith(text, re.text)
    ELSE IndexOfSub(text, re.text) # -1

\* a text of decimal digits, and the number it writes
Digits == <<"0", "1", "2", "3", "4", "5", "6", "7", "8", "9">>
IsDigit(c) == \E d \in 1..Len(Digits) : Digits[d] = c
DigitValue(c) == (CHOOSE d \in 1..Len(Digits) : Digits[d] = c) - 1
IsNumeral(text) ==
    /\ Len(text) > 0
    /\ \A i \in 1..Len(text) : IsDigit(text[i])
    /\ Len(text) > 1 => text[1] # "0"
RECURSIVE NumeralValue(_)
NumeralValue(text) ==
    IF text = <<>> THEN 0
    ELSE 10 * NumeralValue(SubSeq(text, 1, Len(text) - 1))
           + DigitValue(text[Len(text)])

\* JavaScript values: t is what typeof, instanceof RegExp and Array.isArray
\* tell of one.  Strings (text), regular expressions (text: the source),
\* arrays of strings (items), functions (name), numbers (v), booleans (v is
\* 1 for true, 0 for false), null, and plain objects, which are equal to
\* nothing but themselves
JSValue(t) ==
    [t |-> t, v |-> 0, text |-> <<>>, anchored |-> FALSE, items |-> <<>>,
     name |-> ""]
JSString(text) == [JSValue("string") EXCEPT !.text = text]
JSRegExp(source, anchored) ==
    [JSValue("regexp") EXCEPT !.text = source, !.anchored = anchored]
JSArray(items) == [JSValue("array") EXCEPT !.items = items]
JSFunction(name) == [JSValue("function") EXCEPT !.name = name]
JSNumber(n) == [JSValue("number") EXCEPT !.v = n]
JSBoolean(b) == [JSValue("boolean") EXCEPT !.v = IF b THEN 1 ELSE 0]
JSNull == JSValue("null")
JSObject == JSValue("object")

\* expected === parsed, for a value JSON.parse has just made: a new object
\* is no earlier object
StrictEquals(expected, parsed) ==
    expected.t = parsed.t /\ expected.t # "object" /\ expected.v = parsed.v

\* JSON.parse(actual) for the texts of the model: a numeral, true, false,
\* null, or an array of numerals; anything else, the text "undefined" of a
\* missing value included, is a SyntaxError (ok: FALSE)
IsArrayText(text) ==
    /\ Len(text) >= 2
    /\ text[1] = "[" /\ text[Len(text)] = "]"
    /\ \A i \in 2..Len(text) - 1 : IsDigit(text[i]) \/ text[i] \in {",", " "}
    /\ Len(text) > 2 => IsDigit(text[2]) /\ IsDigit(text[Len(text) - 1])

JSONParse(actual) ==
    LET text == ToText(actual)
    IN  IF text = <<"t", "r", "u", "e">>
        THEN [ok |-> TRUE, val |-> JSBoolean(TRUE)]
        ELSE IF text = <<"f", "a", "l", "s", "e">>
        THEN [ok |-> TRUE, val |-> JSBoolean(FALSE)]
        ELSE IF text = <<"n", "u", "l", "l">>
        THEN [ok |-> TRUE, val |-> JSNull]
        ELSE IF IsNumeral(text)
        THEN [ok |-> TRUE, val |-> JSNumber(NumeralValue(text))]
        ELSE IF IsArrayText(text)
        THEN [ok |-> TRUE, val |-> JSObject]
        ELSE [ok |-> FALSE, val |-> JSNull]

\* the predicate functions of the conditions, by name, and whether what one
\* returns is truthy:
\*   "even"    val => val && val % 2 === 0   (tests part_001 782)
\*   "absent"  val => !val
CallPredicate(fn, actual) ==
    CASE fn = "even" ->
           /\ actual # UndefStr /\ actual # <<>>
           /\ IsNumeral(actual)
           /\ NumeralValue(actual) % 2 = 0
      [] fn = "absent" -> actual = UndefStr \/ actual = <<>>

\* one entry of a query condition: a key and the value declared for it
Declared(key, expected) == [key |-> key, expected |-> expected]

\* a checker that takes an unparsable value for a match
QueryChecker_Lenient(expected, actual) ==
    CASE expected.t = "string" -> actual = expected.text
      [] expected.t = "regexp" -> RegExp_exec(expected, ToText(actual))
      [] expected.t = "array" -> SeqHas(expected.items, actual)
      [] expected.t = "function" -> CallPredicate(expected.name, actual)
      [] OTHER -> JSONParse(actual).ok => StrictEquals(expected, JSONParse(actual).val)

\* the checker the setter of Layer.query installs for a declared value, by
\* what the value is (lib/Layer.js 154-170)
QueryChecker(expected, actual) ==
    CASE expected.t = "string" -> actual = expected.text
      [] expected.t = "regexp" -> RegExp_exec(expected, ToText(actual))
      [] expected.t = "array" -> SeqHas(expected.items, actual)
      [] expected.t = "function" -> CallPredicate(expected.name, actual)
      [] OTHER -> IF JSONParse(actual).ok
                  THEN StrictEquals(expected, JSONParse(actual).val)
                  ELSE FALSE

\* what is assigned to layer.query: undefined, or an object of declared keys
UndefQuery == [defined |-> FALSE, entries |-> <<>>]
QueryObject(entries) == [defined |-> TRUE, entries |-> entries]

\* set query(newQuery) (lib/Layer.js 146-152): undefined and an object with
\* no key leave this._query undefined
SetQuery(newQuery) ==
    IF ~newQuery.defined \/ Len(newQuery.entries) = 0 THEN NoQuery
    ELSE newQuery.entries

\* actualQuery[key]
QueryValue(actualQuery, key) ==
    IF key \in DOMAIN actualQuery THEN actualQuery[key] ELSE UndefStr

\* Layer.queryMatch (lib/Layer.js 180-186)
queryMatch(query, actualQuery) ==
    IF query = NoQuery THEN TRUE
    ELSE \A i \in 1..Len(query) :
             QueryChecker(query[i].expected,
                          QueryValue(actualQuery, query[i].key))

fast_slash(layer) == layer.path = <<"/">> /\ layer.end = FALSE
fast_star(layer) == layer.path = <<"*">>

\* this.params as filled from the captures (lib/Layer.js 122-134)
CaptureParams(keys, caps) ==
    [n \in {keys[i] : i \in 1..Len(caps)} |->
        caps[CHOOSE i \in 1..Len(caps) :
                 /\ keys[i] = n
                 /\ \A j \in 1..Len(caps) : keys[j] = n => j <= i]]

\* a match that leaves out the query condition
LayerMatch_AnyQuery(layer, path, actualQuery) ==
    LET m == RegexpExec(layer.path, layer.end, path)
    IN  IF fast_slash(layer)
        THEN [match |-> TRUE, params |-> EmptyParams, path |-> <<>>]
        ELSE IF fast_star(layer)
        THEN [match |-> TRUE, params |-> [n \in {"0"} |-> path], path |-> path]
        ELSE IF ~m.ok
        THEN [match |-> FALSE, params |-> NoParams, path |-> UndefStr]
        ELSE [match |-> TRUE,
              params |-> CaptureParams(LayerKeys(layer.path), m.caps),
              path |-> SubstrTo(path, m.len)]

\* Layer.match (lib/Layer.js 89-136): the value returned and the scratch
\* fields this.params and this.path it leaves behind
LayerMatch(layer, path, actualQuery) ==
    LET queryMatched == queryMatch(layer.query, actualQuery)
        m == RegexpExec(layer.path, layer.end, path)
    IN  IF fast_slash(layer)
        THEN [match |-> queryMatched, params |-> EmptyParams, path |-> <<>>]
        ELSE IF fast_star(layer)
        THEN [match |-> queryMatched, params |-> [n \in {"0"} |-> path],
              path |-> path]
        ELSE IF ~m.ok
        THEN [match |-> FALSE, params |-> NoParams, path |-> UndefStr]
        ELSE [match |-> queryMatched,
              params |-> CaptureParams(LayerKeys(layer.path), m.caps),
              path |-> SubstrTo(path, m.len)]

(***************************************************************************)
(* Route (lib/Route.js).                                                   *)
(***************************************************************************)
Lower(m) ==
    CASE m = "GET" -> "get" [] m = "POST" -> "post" [] m = "HEAD" -> "head"
      [] m = "OPTIONS" -> "options" [] OTHER -> m

Upper(m) ==
    CASE m = "get" -> "GET" [] m = "post" -> "POST" [] m = "head" -> "HEAD"
      [] m = "options" -> "OPTIONS" [] m = "_all" -> "_ALL" [] OTHER -> m

\* Route._handles_method (lib/Route.js 52-64)
handles_method(route, method) ==
    IF SeqHas(route.methods, "_all") THEN TRUE
    ELSE LET name == Lower(method)
             name2 == IF name = "head" /\ ~SeqHas(route.methods, "head")
                      THEN "get" ELSE name
         IN  SeqHas(route.methods, name2)

\* Route._options (lib/Route.js 70-84)
route_options(route) ==
    LET methodsArr == IF SeqHas(route.methods, "get") /\ ~SeqHas(route.methods, "head")
                      THEN Append(route.methods, "head")
                      ELSE route.methods
    IN  [i \in 1..Len(methodsArr) |-> Upper(methodsArr[i])]

\* an _options() that pushes 'head' to the verbs of the Route
OwnMethods_Pushed(route) ==
    IF SeqHas(route.methods, "get") /\ ~SeqHas(route.methods, "head")
    THEN Append(route.methods, "head")
    ELSE route.methods

\* this.methods of a Route after _options() (lib/Route.js 70-84): the list
\* that 'head' is pushed to is the new array Object.keys(this.methods) made,
\* and the upper-casing is done in that array
OwnMethods(route) == route.methods

\* an appendMethods that pushes every verb, listed before or not
appendMethods_Push(list, addition) == list \o addition

\* appendMethods (lib/index.js 558-565)
RECURSIVE appendMethods(_, _)
appendMethods(list, addition) ==
    IF addition = <<>> THEN list
    ELSE appendMethods(IF SeqHas(list, Head(addition)) THEN list
                       ELSE Append(list, Head(addition)),
                       Tail(addition))

(***************************************************************************)
(* Bounds of the model.                                                    *)
(***************************************************************************)
MaxLayers == 3         \* layers registered in all, on all Routers together
MaxCallbacks == 2      \* parameter callbacks registered per name on one Router
MaxPositional == 2     \* positional captures of one side of a merge

\* Router 1 is the one the host calls, unless it calls what routes(false)
\* returned; Router 1 may mount Router 2; Wrapper is the Router routes(false)
\* makes around a Router with a prefix
Wrapper == 3
RouterIds == {1, 2, Wrapper}
ParamNames == {"u", "v"}

(***************************************************************************)
(* State.                                                                  *)
(*   routers   the routing tables: per Router its stack and its parameter  *)
(*             registry (this.params: per name the number of callbacks)    *)
(*   scratch   per layer of a Router's stack, the match scratch fields     *)
(*             layer.params and layer.path                                 *)
(*   ctx       the request context                                         *)
(*   frames    the live calls of Router.handle and Route.dispatch, the     *)
(*             innermost last, each with the local variables its closures  *)
(*             share                                                       *)
(*   pc        the function about to run; sig: the signal it is passed;    *)
(*             callee: the Router whose handle is about to run             *)
(*   log       what user code has been invoked, in order, and what it saw  *)
(*   family    which registrations and requests this behaviour draws from  *)
(*   probe     one Layer on its own, with the query it is asked about and  *)
(*             what queryMatch answered                                    *)
(*   reg       the last registration call and whether it raised            *)
(*   depth     the calls pending in the dispatch: every step of the        *)
(*             dispatch is a function called by the step before it, which  *)
(*             returns the promise of the call; a function that calls      *)
(*             itself for each item it passes over counts once per item    *)
(*   parked    a second request in flight on the same Routers, suspended   *)
(*             in user code: its ctx, frames, pc, sig, callee, log, depth  *)
(***************************************************************************)
VARIABLES routers, scratch, ctx, frames, pc, sig, callee, log, family, probe,
          reg, depth, parked

vars == <<routers, scratch, ctx, frames, pc, sig, callee, log, family, probe,
          reg, depth, parked>>

NoCtx == [method |-> Undef, url |-> UndefStr, query |-> EmptyParams,
          params |-> NoParams, baseUrl |-> UndefStr, originalUrl |-> UndefStr,
          route |-> <<>>, next |-> 0, allow |-> <<>>, body |-> <<>>]

\* new Router() (lib/index.js 35-45, 539-544); prefix: false is <<>>
NewRouter == [stack |-> <<>>, params |-> [n \in ParamNames |-> 0],
              mergeParams |-> FALSE, prefix |-> <<>>]

\* the scratch fields of a new Layer (lib/Layer.js 45-47)
NewScratch == [params |-> NoParams, path |-> UndefStr]

Top == frames[Len(frames)]
Pop == SubSeq(frames, 1, Len(frames) - 1)
SetTop(f) == [frames EXCEPT ![Len(frames)] = f]

(***************************************************************************)
(* What a behaviour registers and dispatches.  A registration call is a    *)
(* record [op, r, method, path, args, name]; a request is                  *)
(* [method, url, query].  Each family is a small menu of registration      *)
(* calls and requests around one part of the engine.                       *)
(***************************************************************************)
\* the arguments of a registration call after the path: a function (a
\* middleware, or the routes() of Router mount), null, an object of declared
\* query keys, or the string 'x' (as a query it declares the key 0); length
\* is the number of parameters a function declares: (ctx, next) for a
\* middleware and for the routes() of a Router, (err, ctx, next, more) for a
\* function written as a legacy error handler
FnArg(mount) ==
    [t |-> "function", query |-> <<>>, mount |-> mount, length |-> 2]
LegacyArg == [t |-> "function", query |-> <<>>, mount |-> 0, length |-> 4]
NullArg == [t |-> "null", query |-> <<>>, mount |-> 0, length |-> 0]
ObjectArg(entries) ==
    [t |-> "object", query |-> entries, mount |-> 0, length |-> 0]
StringArg == [t |-> "string", query |-> <<Declared("0", JSString(<<"x">>))>>,
              mount |-> 0, length |-> 0]

QueryArgs(query) == IF query = NoQuery THEN <<>> ELSE <<ObjectArg(query)>>

Cmd(op, r, method, path, args, name) ==
    [op |-> op, r |-> r, method |-> method, path |-> path, args |-> args,
     name |-> name]
\* router.use(path, ...args) and router.METHOD(path, ...args)
CmdUseArgs(r, path, args) == Cmd("use", r, "", path, args, "")
CmdMethodArgs(r, method, path, args) == Cmd("method", r, method, path, args, "")
\* router.use(path, query, fn) and router.METHOD(path, query, fn, ...) with n
\* functions
CmdUse(r, path, query, mount) ==
    CmdUseArgs(r, path, QueryArgs(query) \o <<FnArg(mount)>>)
CmdMethod(r, method, path, query, n) ==
    CmdMethodArgs(r, method, path, QueryArgs(query) \o [i \in 1..n |-> FnArg(0)])
CmdParam(r, name) == Cmd("param", r, "", <<>>, <<>>, name)
\* router.route(path, query), and route.VERB(...args) on the Route the last
\* router.route() of Router r returned
CmdRoute(r, path, query) == Cmd("route", r, "", path, QueryArgs(query), "")
CmdVerbArgs(r, method, args) == Cmd("verb", r, method, <<>>, args, "")
CmdVerb(r, method, query) ==
    CmdVerbArgs(r, method, QueryArgs(query) \o <<FnArg(0)>>)
\* router.routes(false), whose result the host is given
CmdRoutes(r) == Cmd("routes", r, "", <<>>, <<>>, "")
NoCall == Cmd("none", 0, "", <<>>, <<>>, "")
Req(method, url, query) == [method |-> method, url |-> url, query |-> query]

PRoot == <<"/">>
PStar == <<"*">>
PA == <<"/", "a">>
PB == <<"/", "b">>
PAU == <<"/", "a", "/", ":", "u", "/">>
PUB == <<"/", ":", "u", "/", "b">>
PUV == <<"/", ":", "u", "/", ":", "v">>
PAB == <<"/", "a", "/", "b">>
PBSlash == <<"/", "b", "/">>
PNoSlash == <<"a">>
\* the regular expression /^\/a/
PReA == <<"^", "/", "a">>

\* the query values and conditions of the tests (part_001 697-810)
Started == <<"s", "t", "a", "r", "t", "e", "d">>
Progressing == <<"p", "r", "o", "g", "r", "e", "s", "s", "i", "n", "g">>
End == <<"e", "n", "d">>
QStarted == <<Declared("state", JSString(Started))>>
QueryOf(v) == [k \in {"state"} |-> v]

UrlRoot == <<"/">>
UrlAB == <<"/", "a", "/", "b">>
UrlABB == <<"/", "a", "/", "b", "/", "b">>
UrlABQ == <<"/", "a", "/", "b", "?", "x">>
UrlAQ == <<"/", "a", "?", "x">>
UrlFqdnAB == <<"h", ":", "/", "/", "e", "/", "a", "/", "b">>
UrlFqdnA == <<"h", ":", "/", "/", "e", "/", "a">>
UrlFqdn == <<"h", ":", "/", "/", "e">>
UrlAFqdn == <<"/", "a", "/", "h", ":", "/", "/", "e">>
UrlAQFqdn == <<"/", "a", "?", "h", ":", "/", "/", "e", "/", "b">>
UrlA == <<"/", "a">>
UrlB == <<"/", "b">>
UrlAb == <<"/", "a", "b">>
UrlADotB == <<"/", "a", ".", "b">>
UrlABb == <<"/", "a", "/", "b", "b">>
UrlBAB == <<"/", "b", "/", "a", "/", "b">>
UrlAAB == <<"/", "a", "/", "a", "/", "b">>
\* { url: '' } and a context with no url (part_001 46-69)
UrlBlank == <<>>
UrlMissing == UndefStr
UrlBaB == <<"/", "b", "a", "/", "b">>

Families ==
    {"verbs", "params", "captures", "urls", "options", "routes", "arguments",
     "errors", "prefix", "joins", "blank", "boundary", "memo"}

Menu(fam) ==
    CASE fam = "verbs" ->
           { CmdMethod(1, "get", PRoot, QStarted, 1),
             CmdMethod(1, "get", PRoot, NoQuery, 2),
             CmdMethod(1, "post", PRoot, NoQuery, 1),
             CmdUse(1, PRoot, NoQuery, 2),
             CmdMethod(2, "all", PRoot, NoQuery, 2) }
      [] fam = "params" ->
           { CmdParam(1, "u"),
             CmdUse(1, PAU, NoQuery, 2),
             CmdUse(1, PUB, NoQuery, 0),
             CmdMethod(2, "get", PB, NoQuery, 1) }
      [] fam = "captures" ->
           { CmdParam(1, "u"), CmdParam(1, "v"),
             CmdMethod(1, "get", PUV, NoQuery, 1) }
      [] fam = "urls" ->
           { CmdUse(1, PA, NoQuery, 0),
             CmdUse(1, PA, NoQuery, 2),
             CmdUse(1, PStar, NoQuery, 0),
             CmdUse(2, PB, NoQuery, 0) }
      [] fam = "options" ->
           { CmdMethod(1, "get", PRoot, NoQuery, 1),
             CmdMethod(1, "post", PRoot, NoQuery, 1),
             CmdMethod(1, "get", PRoot, QStarted, 1),
             CmdMethod(1, "options", PRoot, NoQuery, 1),
             CmdMethod(1, "all", PRoot, NoQuery, 1),
             CmdUse(1, PRoot, NoQuery, 0) }
      [] fam = "routes" ->
           { CmdRoute(1, PRoot, NoQuery),
             CmdVerb(1, "get", NoQuery),
             CmdVerb(1, "get", QStarted),
             CmdVerb(1, "head", NoQuery),
             CmdVerb(1, "all", NoQuery) }
      [] fam = "arguments" ->
           { CmdUseArgs(1, PRoot, <<>>),
             CmdUseArgs(1, PRoot, <<NullArg>>),
             CmdUseArgs(1, PRoot, <<ObjectArg(QStarted)>>),
             CmdUseArgs(1, PRoot, <<FnArg(0), StringArg>>),
             CmdUseArgs(1, PRoot, <<ObjectArg(QStarted), FnArg(0)>>),
             CmdMethodArgs(1, "get", PRoot, <<NullArg>>),
             CmdMethodArgs(1, "get", PRoot, <<FnArg(0), NullArg>>),
             CmdMethodArgs(1, "get", PRoot,
                           <<ObjectArg(QStarted), StringArg, FnArg(0)>>),
             CmdRoute(1, PRoot, NoQuery),
             CmdVerbArgs(1, "all", <<NullArg>>),
             CmdVerbArgs(1, "all", <<ObjectArg(QStarted), StringArg>>),
             CmdVerbArgs(1, "all", <<StringArg>>),
             CmdVerbArgs(1, "all", <<FnArg(0)>>) }
      [] fam = "errors" ->
           { CmdParam(2, "u"),
             CmdUse(1, PRoot, NoQuery, 0),
             CmdUse(1, PRoot, NoQuery, 2),
             CmdMethod(2, "get", PUB, NoQuery, 1) }
      [] fam = "prefix" ->
           { CmdUse(2, PRoot, NoQuery, 0),
             CmdMethod(2, "get", PB, NoQuery, 1),
             CmdUse(1, PB, NoQuery, 2),
             CmdRoutes(1),
             CmdRoutes(2) }
      [] fam = "boundary" ->
           { CmdUse(1, PReA, NoQuery, 0),
             CmdUse(1, PReA, NoQuery, 2),
             CmdUse(2, PRoot, NoQuery, 0),
             CmdUse(1, PRoot, NoQuery, 0) }
      [] fam = "handlers" ->
           { CmdUseArgs(1, PA, <<LegacyArg>>),
             CmdUseArgs(1, PA, <<FnArg(0)>>),
             CmdMethodArgs(1, "get", PAB, <<LegacyArg, FnArg(0)>>) }
      [] fam = "memo" ->
           { CmdParam(1, "u"),
             CmdUse(1, PAU, NoQuery, 0),
             CmdUse(1, PUB, NoQuery, 0) }
      [] fam = "blank" ->
           { CmdUse(1, PRoot, NoQuery, 0),
             CmdUse(1, PStar, NoQuery, 0),
             CmdMethod(1, "get", PRoot, NoQuery, 1) }
      [] fam = "parallel" ->
           { CmdParam(1, "u"),
             CmdUse(1, PAU, NoQuery, Wrapper),
             CmdUse(1, PAU, NoQuery, 2),
             CmdMethod(2, "get", PB, NoQuery, 1) }
      [] fam = "joins" ->
           { CmdUse(1, PRoot, NoQuery, 0),
             CmdUse(1, PB, NoQuery, 2),
             CmdUse(1, PBSlash, NoQuery, 2),
             CmdMethod(2, "get", PB, NoQuery, 1) }

\* the prefix option Router 2 is made with: new Router({ prefix })
Prefixes(fam) ==
    IF fam = "prefix" THEN {PA, PAB}
    ELSE IF fam = "joins" THEN {PA, PNoSlash}
    ELSE {<<>>}

Requests(fam) ==
    CASE fam = "verbs" ->
           { Req(m, UrlRoot, QueryOf(q)) :
               m \in {"GET", "POST", "HEAD"}, q \in {Started, End} }
      [] fam = "params" -> { Req("GET", UrlABB, EmptyParams) }
      [] fam = "captures" -> { Req("GET", UrlAB, EmptyParams) }
      [] fam = "urls" ->
           { Req("GET", u, EmptyParams) :
               u \in {UrlABQ, UrlAQ, UrlFqdnAB, UrlFqdnA, UrlFqdn, UrlAFqdn,
                      UrlAQFqdn} }
      [] fam = "options" -> { Req("OPTIONS", UrlRoot, QueryOf(End)) }
      [] fam = "arguments" -> { Req("GET", UrlRoot, QueryOf(Started)) }
      [] fam = "errors" -> { Req("GET", UrlAB, EmptyParams) }
      [] fam = "prefix" ->
           { Req("GET", u, EmptyParams) :
               u \in {UrlA, UrlB, UrlAb, UrlADotB, UrlAB, UrlABb, UrlABB,
                      UrlABQ} }
      [] fam = "joins" ->
           { Req("GET", u, EmptyParams) : u \in {UrlB, UrlBAB, UrlBaB} }
      [] fam = "parallel" ->
           { Req("GET", u, EmptyParams) : u \in {UrlABB, UrlAAB} }
      [] fam = "boundary" ->
           { Req("GET", u, EmptyParams) : u \in {UrlA, UrlAb, UrlADotB, UrlAB} }
      [] fam = "memo" -> { Req("GET", UrlABB, EmptyParams) }
      [] fam = "handlers" -> { Req("GET", UrlAB, EmptyParams) }
      [] fam = "blank" ->
           { Req(m, u, EmptyParams) :
               m \in {"GET", "OPTIONS"}, u \in {UrlBlank, UrlMissing} }
      [] fam = "routes" ->
           { Req(m, UrlRoot, QueryOf(End)) : m \in {"GET", "HEAD", "OPTIONS"} }
             \cup { Req("GET", UrlRoot, QueryOf(Started)) }

\* no second request
NoParked == [ctx |-> NoCtx, frames |-> <<>>, pc |-> "none", sig |-> None,
             callee |-> 0, log |-> <<>>, depth |-> 0]

\* the context of a request that arrives
Arrived(q) == [NoCtx EXCEPT !.method = q.method, !.url = q.url,
                            !.query = q.query]

\* the second request of a family: the family "parallel" has two requests in
\* flight (part_001 656-695), the second about to enter Router 1
Second(fam) ==
    IF fam = "parallel"
    THEN {[NoParked EXCEPT !.ctx = Arrived(q), !.pc = "handle", !.callee = 1] :
            q \in Requests(fam)}
    ELSE {NoParked}

\* no Layer is looked at on its own
NoProbe == [at |-> "none", given |-> UndefQuery, query |-> NoQuery,
            actualQuery |-> EmptyParams, result |-> FALSE]

(***************************************************************************)
(* Configuration phase: registration.                                      *)
(***************************************************************************)
\* what is left of the last registration call: the call, and whether it
\* raised a TypeError
NoReg == [call |-> NoCall, raised |-> FALSE]
Called(c, raised) == [call |-> c, raised |-> raised]

Init ==
    /\ family \in Families
    /\ \E prefix \in Prefixes(family) :
         routers = [r \in RouterIds |->
                      IF r = 2 THEN [NewRouter EXCEPT !.prefix = prefix]
                      ELSE NewRouter]
    /\ scratch = [r \in RouterIds |-> <<>>]
    /\ ctx = NoCtx
    /\ frames = <<>>
    /\ pc = "config"
    /\ sig = None
    /\ callee = 0
    /\ log = <<>>
    /\ probe = NoProbe
    /\ reg = NoReg
    /\ depth = 0
    /\ parked = NoParked

\* the layers route.VERB() calls added to the Routes router.route() returned
VerbLayers ==
    {t \in RouterIds \X (1..MaxLayers) \X (1..MaxLayers) :
        /\ t[2] <= Len(routers[t[1]].stack)
        /\ routers[t[1]].stack[t[2]].open
        /\ t[3] <= Len(routers[t[1]].stack[t[2]].stack)}

TotalLayers ==
    Len(routers[1].stack) + Len(routers[2].stack) + Cardinality(VerbLayers)

\* `if (middlewares[0] && typeof middlewares[0] !== 'function') query =
\* middlewares.shift()` (lib/index.js 446-448 and 530-533, lib/Route.js
\* 232-235), with the setter of layer.query
TakeQuery(args) ==
    IF args # <<>> /\ args[1].t # "null" /\ args[1].t # "function"
    THEN [query |-> SetQuery(QueryObject(args[1].query)), rest |-> Tail(args)]
    ELSE [query |-> NoQuery, rest |-> args]

\* the loop over the middlewares (lib/index.js 454-482, lib/Route.js
\* 237-252) stops with a TypeError at the first that is not a function: the
\* functions before it have their layers
RECURSIVE LeadingFns(_)
LeadingFns(args) ==
    IF args = <<>> \/ args[1].t # "function" THEN <<>>
    ELSE <<args[1]>> \o LeadingFns(Tail(args))

NotAllFunctions(args) == \E i \in 1..Len(args) : args[i].t # "function"

\* this.stack.push(layer) for each of the layers
AddLayers(r, layers) ==
    /\ routers' = [routers EXCEPT ![r].stack = @ \o layers]
    /\ scratch' = [scratch EXCEPT ![r] = @ \o [i \in 1..Len(layers) |-> NewScratch]]

\* a use() that mounts every Router at the path it is given
PrefixedPath_Bare(path, prefix) == path

\* the path of the layer of a mounted Router with a prefix (lib/index.js
\* 462-469): '/usedPath/' and '/routerPath' make '/usedPath/routerPath'
PrefixedPath(path, prefix) ==
    IF prefix = <<>> THEN path
    ELSE (IF path[Len(path)] = "/" /\ prefix[1] = "/"
          THEN SubstrTo(path, Len(path) - 1) ELSE path) \o prefix

\* fn.router.prefix of a middleware: routes() of a Router carries the Router
\* (lib/index.js 62)
PrefixOf(fn) == IF fn.mount = 0 THEN <<>> ELSE routers[fn.mount].prefix

\* the layers Router.use makes (lib/index.js 472-481): end: false, no Route
UseLayers(path, query, fns) ==
    [i \in 1..Len(fns) |->
        [path |-> PrefixedPath(path, PrefixOf(fns[i])), end |-> FALSE, query |-> query, isRoute |-> FALSE,
         mount |-> fns[i].mount, open |-> FALSE, methods |-> <<>>,
         stack |-> <<>>, handle |-> fns[i].t, length |-> fns[i].length]]

\* Router.use(path, ...middlewares) (lib/index.js 429-486)
Router_use ==
    /\ pc = "config"
    /\ TotalLayers < MaxLayers
    /\ \E c \in Menu(family) :
         /\ c.op = "use"
         /\ AddLayers(c.r, UseLayers(c.path, TakeQuery(c.args).query,
                                     LeadingFns(TakeQuery(c.args).rest)))
         /\ reg' = Called(c, \/ TakeQuery(c.args).rest = <<>>
                             \/ NotAllFunctions(TakeQuery(c.args).rest))
    /\ pc' = IF reg'.raised THEN "threw" ELSE "config"
    /\ UNCHANGED <<ctx, frames, sig, callee, log, family, depth, parked, probe>>

\* Route.method(methodName, ...middlewares) (lib/Route.js 231-256): a layer
\* for each function, with the verb and the query, and the verb among the
\* keys of route.methods
RECURSIVE AddVerbs(_, _, _, _)
AddVerbs(route, method, query, fns) ==
    IF fns = <<>> THEN route
    ELSE AddVerbs([route EXCEPT
                     !.methods = IF SeqHas(@, method) THEN @ ELSE Append(@, method),
                     !.stack = Append(@, [method |-> IF method = "_all" THEN Undef
                                                     ELSE method,
                                          query |-> query,
                                          handle |-> Head(fns).t,
                                          length |-> Head(fns).length])],
                  method, query, Tail(fns))

\* route.VERB(...middlewares) and route.all(...middlewares) (lib/Route.js
\* 110-225)
RouteVerb(route, method, args) ==
    AddVerbs(route, IF method = "all" THEN "_all" ELSE method,
             TakeQuery(args).query, LeadingFns(TakeQuery(args).rest))

\* the layer Router.route makes (lib/index.js 500-511): end: true, around a
\* new Route, which has no layer and handles no verb; its handler is
\* route.dispatch.bind(route), of two parameters
RouteLayer(path, query, open) ==
    [path |-> path, end |-> TRUE, query |-> query, isRoute |-> TRUE,
     mount |-> 0, open |-> open, methods |-> <<>>, stack |-> <<>>,
     handle |-> "function", length |-> 2]

\* Router.METHOD(path, ...middlewares) (lib/index.js 518-536, 548-552): the
\* query is taken, Router.route makes the layer, and route[method] is given
\* the rest
Router_method ==
    /\ pc = "config"
    /\ TotalLayers < MaxLayers
    /\ \E c \in Menu(family) :
         /\ c.op = "method"
         /\ AddLayers(c.r, <<RouteVerb(RouteLayer(c.path, TakeQuery(c.args).query,
                                                  FALSE),
                                       c.method, TakeQuery(c.args).rest)>>)
         /\ reg' = Called(c, NotAllFunctions(TakeQuery(TakeQuery(c.args).rest).rest))
    /\ pc' = IF reg'.raised THEN "threw" ELSE "config"
    /\ UNCHANGED <<ctx, frames, sig, callee, log, family, depth, parked, probe>>

\* Router.route(path, query) (lib/index.js 500-511)
Router_route ==
    /\ pc = "config"
    /\ TotalLayers < MaxLayers
    /\ \E c \in Menu(family) :
         /\ c.op = "route"
         /\ AddLayers(c.r, <<RouteLayer(c.path,
                                        IF c.args = <<>> THEN NoQuery
                                        ELSE SetQuery(QueryObject(c.args[1].query)),
                                        TRUE)>>)
         /\ reg' = Called(c, FALSE)
    /\ UNCHANGED <<ctx, frames, pc, sig, callee, log, family, depth, parked, probe>>

\* route.VERB(...middlewares) on the Route the last router.route() returned
Route_method ==
    /\ pc = "config"
    /\ TotalLayers < MaxLayers
    /\ \E c \in Menu(family) :
         /\ c.op = "verb"
         /\ Len(routers[c.r].stack) > 0
         /\ routers[c.r].stack[Len(routers[c.r].stack)].open
         /\ routers' = [routers EXCEPT ![c.r].stack[Len(routers[c.r].stack)] =
                           RouteVerb(@, c.method, c.args)]
         /\ reg' = Called(c, NotAllFunctions(TakeQuery(c.args).rest))
    /\ pc' = IF reg'.raised THEN "threw" ELSE "config"
    /\ UNCHANGED <<scratch, ctx, frames, sig, callee, log, family, depth, parked, probe>>

\* router.routes(false) (lib/index.js 51-69): the Router's own middleware, or
\* that of a new Router that uses it when the Router has a prefix
Router_routes ==
    /\ pc = "config"
    /\ callee = 0
    /\ \E c \in Menu(family) :
         /\ c.op = "routes"
         /\ IF routers[c.r].prefix # <<>>
            THEN /\ AddLayers(Wrapper, UseLayers(PRoot, NoQuery, <<FnArg(c.r)>>))
                 /\ callee' = Wrapper
            ELSE /\ callee' = c.r
                 /\ UNCHANGED <<routers, scratch>>
         /\ reg' = Called(c, FALSE)
    /\ UNCHANGED <<ctx, frames, pc, sig, log, family, depth, parked, probe>>

\* Router.param(name, fn) (lib/index.js 103-127)
Router_param ==
    /\ pc = "config"
    /\ \E c \in Menu(family) :
         /\ c.op = "param"
         /\ routers[c.r].params[c.name] < MaxCallbacks
         /\ routers' = [routers EXCEPT ![c.r].params[c.name] = @ + 1]
         /\ reg' = Called(c, FALSE)
    /\ UNCHANGED <<scratch, ctx, frames, pc, sig, callee, log, family, depth, parked, probe>>

\* the host calls router.handle(ctx, next) on Router 1 with a fresh context,
\* or the middleware routes(false) returned
Request ==
    /\ pc = "config"
    /\ \E q \in Requests(family) : ctx' = Arrived(q)
    /\ parked' \in Second(family)
    /\ pc' = "handle"
    /\ callee' = IF callee = 0 THEN 1 ELSE callee
    /\ log' = <<>>
    /\ reg' = NoReg
    /\ depth' = 0
    /\ UNCHANGED <<routers, scratch, frames, sig, family, probe>>

(***************************************************************************)
(* The log of one dispatch.  e is                                          *)
(*   "handle"   a Router.handle call starts; hid numbers it (its index in  *)
(*              the log) and phid, li name the call and the layer that     *)
(*              mounted the Router (0: the host called it)                 *)
(*   "layer"    router_next found a matching layer and copied its values   *)
(*   "param"    a parameter callback runs: callback k of name, passed val  *)
(*   "handler"  a middleware or a Route's handler (layer ri of the Route)  *)
(*              runs                                                       *)
(*   "done"     done() calls the continuation the handle call was given    *)
(*              (val: the verbs the call accumulated for an OPTIONS answer, *)
(*              k: how many layers of the stack its scan went through)     *)
(*   "catch"    the promise of the continuation user code called rejects   *)
(*              (k: the log index of that user code, val: the error it is  *)
(*              rejected with, out: the error the user code raises in      *)
(*              turn, none when it returns)                                *)
(* out is what the function does with its continuation; url, baseUrl,      *)
(* params, next, allow and body are the context it sees.                   *)
(***************************************************************************)
Ev(e, f, c) ==
    [e |-> e, hid |-> f.hid, phid |-> 0, r |-> f.r, li |-> f.li, ri |-> 0,
     name |-> "", k |-> 0, val |-> <<>>, out |-> None, url |-> c.url,
     baseUrl |-> c.baseUrl, params |-> c.params, next |-> c.next,
     allow |-> c.allow, body |-> c.body]

\* what user code does with its continuation: next(), next('route'),
\* next('router'), or it never calls it
Outcomes == {None, "route", "router", "stall"}

\* user code that raises: a throw before it returns, or the promise it
\* returns rejects (part_001 139-264)
Raised == {"throw", "reject"}

\* what the user code of a family does: that of the family "errors" calls
\* next() or raises
Behaviours(fam) ==
    IF fam \in {"errors", "handlers"} THEN {None} \cup Raised
    ELSE IF fam \in {"parallel", "boundary", "memo"} THEN {None}
    ELSE Outcomes

\* what the parameter callbacks of a family do: those of the family "memo"
\* call next() with no signal or with a signal that is neither 'route' nor
\* 'router'
CallbackBehaviours(fam) ==
    IF fam = "memo" THEN {None, "other"} ELSE Behaviours(fam)

\* the error user code raised, and the one a catch block may raise in its
\* place
Boom == "boom!"
Oops == "oops"

\* an engine that catches what user code raises and goes on as after next()
Settle_Caught(out, to) ==
    IF out = "stall" THEN [pc |-> "stalled", sig |-> None]
    ELSE [pc |-> to, sig |-> IF out \in Raised THEN None ELSE out]

\* where the promise fn(ctx, next) returns leaves the call that awaits it
\* (lib/index.js 272-283 and 316, 409, lib/Route.js 134, lib/Layer.js 68-77:
\* each is `return` inside an async function, with no try around it): the
\* continuation `to` runs with the signal, the promise stays pending, or it
\* rejects with the error
Settle(out, to) ==
    IF out = "stall" THEN [pc |-> "stalled", sig |-> None]
    ELSE IF out \in Raised THEN [pc |-> "rejecting", sig |-> Boom]
    ELSE [pc |-> to, sig |-> out]

\* a handle call that takes the url it sees for the original one
OriginalUrl_Current(c) == c.url

\* ctx.originalUrl = ctx.originalUrl || ctx.url (lib/index.js 166)
OriginalUrl(c) ==
    IF c.originalUrl = UndefStr \/ c.originalUrl = <<>> THEN c.url
    ELSE c.originalUrl

(***************************************************************************)
(* Router.handle (lib/index.js 135-168): the locals, then router_next().   *)
(***************************************************************************)
handle ==
    /\ pc = "handle"
    /\ LET parentUrl == IF ctx.baseUrl = UndefStr THEN <<>> ELSE ctx.baseUrl
           f == [kind |-> "router", hid |-> Len(log) + 1, r |-> callee,
                 idx |-> 0, removed |-> <<>>, slashAdded |-> FALSE,
                 protohost |-> getProtohost(ctx.url), paramcalled |-> <<>>,
                 options |-> <<>>, parentParams |-> ctx.params,
                 parentUrl |-> parentUrl,
                 vals |-> [baseUrl |-> ctx.baseUrl, params |-> ctx.params,
                           next |-> ctx.next],
                 li |-> 0, layerPath |-> <<>>, path |-> <<>>,
                 i |-> 0, paramIndex |-> 0, key |-> "", paramVal |-> <<>>]
       IN  /\ frames' = Append(frames, f)
           /\ log' = Append(log, [Ev("handle", f, ctx) EXCEPT
                                     !.phid = IF frames = <<>> THEN 0 ELSE Top.hid,
                                     !.li = IF frames = <<>> THEN 0 ELSE Top.li])
           /\ ctx' = [ctx EXCEPT !.next = f.hid,
                                 !.baseUrl = parentUrl,
                                 !.originalUrl = OriginalUrl(ctx)]
    /\ pc' = "router_next"
    /\ sig' = None
    /\ depth' = depth + 1
    /\ UNCHANGED <<routers, scratch, callee, family, parked, probe, reg>>

\* the while loop of router_next (lib/index.js 224-252), from index idx
RECURSIVE FindLayer(_, _, _, _, _, _, _)
FindLayer(stack, scr, idx, path, query, method, options) ==
    IF idx >= Len(stack)
    THEN [match |-> FALSE, idx |-> idx, options |-> options, scratch |-> scr,
          stack |-> stack]
    ELSE LET layer == stack[idx + 1]
             m == LayerMatch(layer, path, query)
             scr2 == [scr EXCEPT ![idx + 1] = [params |-> m.params, path |-> m.path]]
             isRouteMatch == m.match /\ layer.isRoute
             has_method == handles_method(layer, method)
             options2 == IF isRouteMatch /\ ~has_method /\ method = "OPTIONS"
                         THEN appendMethods(options, route_options(layer))
                         ELSE options
             stack2 == IF isRouteMatch /\ ~has_method /\ method = "OPTIONS"
                       THEN [stack EXCEPT ![idx + 1].methods = OwnMethods(layer)]
                       ELSE stack
             skipped == isRouteMatch /\ ~has_method /\ method # "HEAD"
         IN  IF m.match /\ ~skipped
             THEN [match |-> TRUE, idx |-> idx + 1, options |-> options2,
                   scratch |-> scr2, stack |-> stack2]
             ELSE FindLayer(stack2, scr2, idx + 1, path, query, method, options2)

\* options.join(',')
RECURSIVE Join(_)
Join(list) ==
    IF Len(list) = 0 THEN <<>>
    ELSE IF Len(list) = 1 THEN <<list[1]>>
    ELSE <<list[1], ",">> \o Join(Tail(list))

\* a done() that leaves ctx.params and ctx.baseUrl as the scan left them
DoneCtx_Unrestored(f, c) == [c EXCEPT !.next = f.vals.next]

\* the context after done() (lib/index.js 172-185, setOptionsResponse 650-654)
DoneCtx(f, c) ==
    LET answered == c.method = "OPTIONS" /\ Len(f.options) > 0
    IN  [c EXCEPT !.allow = IF answered THEN Join(f.options) ELSE @,
                  !.body = IF answered THEN Join(f.options) ELSE @,
                  !.baseUrl = f.vals.baseUrl,
                  !.params = f.vals.params,
                  !.next = f.vals.next]

\* the names of the positional captures: 0, 1, 2, ...
PosKeys == <<"0", "1", "2", "3", "4", "5">>
Pos(k) == PosKeys[k + 1]

\* `while (i in params) i += 1` (lib/index.js 625-631)
RECURSIVE PosRun(_, _)
PosRun(params, i) ==
    IF i < Len(PosKeys) /\ Pos(i) \in DOMAIN params THEN PosRun(params, i + 1)
    ELSE i

\* Object.assign(obj, params): the keys of both, those of params winning
ObjectAssign(obj, params) ==
    [n \in DOMAIN obj \cup DOMAIN params |->
        IF n \in DOMAIN params THEN params[n] ELSE obj[n]]

\* a loop that leaves the positional captures of params where they are
Offset_InPlace(params, i, o) == params

\* the loop `for (i -= 1; i >= 0; i -= 1)` from index i down (lib/index.js
\* 634-641): params[i + o] = params[i], and params[i] deleted when i < o
RECURSIVE Offset(_, _, _)
Offset(params, i, o) ==
    IF i < 0 THEN params
    ELSE Offset([n \in (DOMAIN params \cup {Pos(i + o)})
                         \ (IF i < o THEN {Pos(i)} ELSE {}) |->
                    IF n = Pos(i + o) THEN params[Pos(i)] ELSE params[n]],
                i - 1, o)

\* mergeParams (lib/index.js 607-643)
mergeParams(params, parent) ==
    IF parent = NoParams THEN params
    ELSE IF Pos(0) \notin DOMAIN params \/ Pos(0) \notin DOMAIN parent
    THEN ObjectAssign(parent, params)
    ELSE ObjectAssign(parent, Offset(params, PosRun(params, 0) - 1,
                                     PosRun(parent, 0)))

\* router_next, lines 188-199: the added slash and the trimmed prefix undone
RestoredUrl(f, url) ==
    LET url1 == IF f.slashAdded THEN SubstrFrom(url, 1) ELSE url
    IN  IF Len(f.removed) # 0
        THEN f.protohost \o f.removed \o SubstrFrom(url1, Len(f.protohost))
        ELSE url1

RestoredCtx(f, c) ==
    [c EXCEPT !.url = RestoredUrl(f, c.url),
              !.baseUrl = IF Len(f.removed) # 0 THEN f.parentUrl ELSE @]

\* a restore that also sends the scan back to the first layer
RestoredFrame_Rewind(f) ==
    [f EXCEPT !.slashAdded = FALSE, !.removed = <<>>, !.idx = 0]

RestoredFrame(f) == [f EXCEPT !.slashAdded = FALSE, !.removed = <<>>]

\* a scan that goes on without a pathname
ScanEnded_Pathless(f, c, signal) ==
    \/ f.idx >= Len(routers[f.r].stack)
    \/ signal = "router"

\* router_next, lines 201-214: no layer is left, the signal is 'router', or
\* the request has no pathname
ScanEnded(f, c, signal) ==
    \/ f.idx >= Len(routers[f.r].stack)
    \/ signal = "router"
    \/ getPathname(c.url) = NullPath

\* a done() that hands the signal it ended on to the continuation
RouterDone_Signal(f, c, scr) ==
    /\ ctx' = DoneCtx(f, c)
    /\ frames' = Pop
    /\ scratch' = scr
    /\ pc' = IF Len(frames) = 1 THEN "finished" ELSE "router_next"
    /\ sig' = sig
    /\ log' = Append(log, [Ev("done", f, DoneCtx(f, c)) EXCEPT
                              !.val = f.options, !.k = f.idx])

\* a done() that restores the fields and returns without calling the
\* continuation
RouterDone_Silent(f, c, scr) ==
    /\ ctx' = DoneCtx(f, c)
    /\ frames' = Pop
    /\ scratch' = scr
    /\ pc' = "returned"
    /\ sig' = None
    /\ log' = log

\* done() and the call of the continuation handle was given: the parent
\* Router's router_next, or the host's continuation
RouterDone(f, c, scr) ==
    /\ ctx' = DoneCtx(f, c)
    /\ frames' = Pop
    /\ scratch' = scr
    /\ pc' = IF Len(frames) = 1 THEN "finished" ELSE "router_next"
    /\ sig' = None
    /\ log' = Append(log, [Ev("done", f, DoneCtx(f, c)) EXCEPT
                              !.val = f.options, !.k = f.idx])

\* router_next, lines 260-283: the matched layer's values are copied and
\* process_params is called
RouterMatched(f, c, path, found) ==
    /\ ctx' = [c EXCEPT
                 !.route = IF routers[f.r].stack[found.idx].isRoute
                           THEN <<f.r, found.idx>> ELSE @,
                 !.params = IF routers[f.r].mergeParams
                            THEN mergeParams(found.scratch[found.idx].params,
                                             f.parentParams)
                            ELSE found.scratch[found.idx].params]
    /\ frames' = SetTop([f EXCEPT !.idx = found.idx,
                                  !.options = found.options,
                                  !.li = found.idx,
                                  !.layerPath = found.scratch[found.idx].path,
                                  !.path = path])
    /\ scratch' = [scratch EXCEPT ![f.r] = found.scratch]
    /\ pc' = "process_params"
    /\ sig' = None
    /\ log' = Append(log, [Ev("layer", f, c) EXCEPT
                              !.li = found.idx,
                              !.val = found.scratch[found.idx].path,
                              !.params = found.scratch[found.idx].params])

RouterScanned(f, c, path, found) ==
    IF found.match
    THEN RouterMatched(f, c, path, found)
    ELSE RouterDone([f EXCEPT !.idx = found.idx, !.options = found.options], c,
                    [scratch EXCEPT ![f.r] = found.scratch])

\* the layers one call of router_next passes over in its loop (224-252)
ScanPassed(f, found) == found.idx - f.idx

\* a scan that calls router_next again for every layer it passes over
ScanCalls_PerLayer(passed) == passed + 1

\* the calls of router_next a scan over so many layers makes: the loop
\* `while (match !== true && idx < stack.length)` is inside one call
ScanCalls(passed) == 1

RouterScan(f, c, path) ==
    \E found \in {FindLayer(routers[f.r].stack, scratch[f.r], f.idx, path,
                            c.query, c.method, f.options)} :
        /\ RouterScanned(f, c, path, found)
        /\ routers' = [routers EXCEPT ![f.r].stack = found.stack]
        /\ depth' = depth + ScanCalls(ScanPassed(f, found))

\* router_next (lib/index.js 187-284) up to the call of process_params, with
\* done() when the scan ends
router_next ==
    /\ pc = "router_next"
    /\ \E f \in {RestoredFrame(Top)}, c \in {RestoredCtx(Top, ctx)},
          path \in {getPathname(RestoredUrl(Top, ctx.url))} :
         IF ScanEnded(Top, c, sig)
         THEN /\ RouterDone(f, c, scratch)
              /\ routers' = routers
              /\ depth' = depth + ScanCalls(0)
         ELSE RouterScan(f, c, path)
    /\ UNCHANGED <<callee, family, parked, probe, reg>>

(***************************************************************************)
(* Router.process_params (lib/index.js 324-413).                           *)
(***************************************************************************)
\* the number of callbacks registered for a name (0: this.params[name] is
\* undefined); the positional capture "0" has none
Callbacks(r, name) ==
    IF name \in ParamNames THEN routers[r].params[name] ELSE 0

\* entry (324-343, 412): the fast track, or the first call of param()
process_params ==
    /\ pc = "process_params"
    /\ LET f == Top
           keys == LayerKeys(routers[f.r].stack[f.li].path)
       IN  /\ frames' = SetTop([f EXCEPT !.i = 0, !.paramIndex = 0])
           /\ pc' = IF Len(keys) = 0 THEN "params_next" ELSE "param"
    /\ sig' = None
    /\ depth' = depth + 1
    /\ UNCHANGED <<routers, scratch, ctx, callee, log, family, parked, probe, reg>>

\* a param() that keeps no memo: every capture with callbacks runs them
RECURSIVE ParamWalk_NoMemo(_, _, _, _, _, _)
ParamWalk_NoMemo(r, keys, i, called, params, signal) ==
    IF signal # None \/ i >= Len(keys)
    THEN [to |-> "next", sig |-> signal, i |-> i, called |-> called,
          params |-> params, key |-> "", paramVal |-> <<>>]
    ELSE LET name == keys[i + 1]
             paramVal == IF name \in DOMAIN params THEN params[name] ELSE UndefStr
         IN  IF paramVal = UndefStr \/ Callbacks(r, name) = 0
             THEN ParamWalk_NoMemo(r, keys, i + 1, called, params, None)
             ELSE [to |-> "callback", sig |-> None, i |-> i + 1,
                   called |-> [n \in DOMAIN called \cup {name} |->
                                 IF n = name
                                 THEN [signal |-> None, match |-> paramVal,
                                       value |-> paramVal]
                                 ELSE called[n]],
                   params |-> params, key |-> name, paramVal |-> paramVal]

\* a param() whose memo answers for a name whatever the value
RECURSIVE ParamWalk_AnyValue(_, _, _, _, _, _)
ParamWalk_AnyValue(r, keys, i, called, params, signal) ==
    IF signal # None \/ i >= Len(keys)
    THEN [to |-> "next", sig |-> signal, i |-> i, called |-> called,
          params |-> params, key |-> "", paramVal |-> <<>>]
    ELSE LET name == keys[i + 1]
             paramVal == IF name \in DOMAIN params THEN params[name] ELSE UndefStr
         IN  IF paramVal = UndefStr \/ Callbacks(r, name) = 0
             THEN ParamWalk_AnyValue(r, keys, i + 1, called, params, None)
             ELSE IF name \in DOMAIN called
             THEN ParamWalk_AnyValue(r, keys, i + 1, called,
                                     [params EXCEPT ![name] = called[name].value],
                                     called[name].signal)
             ELSE [to |-> "callback", sig |-> None, i |-> i + 1,
                   called |-> [n \in DOMAIN called \cup {name} |->
                                 IF n = name
                                 THEN [signal |-> None, match |-> paramVal,
                                       value |-> paramVal]
                                 ELSE called[n]],
                   params |-> params, key |-> name, paramVal |-> paramVal]

\* a memo that answers for the value it was recorded for only
Memoized_SameValue(paramCalled, paramVal) == paramCalled.match = paramVal

\* the memo entry of a name answers for the value captured (371-372): it was
\* recorded for this value, or with a signal that is not 'route'
Memoized(paramCalled, paramVal) ==
    \/ paramCalled.match = paramVal
    \/ paramCalled.signal # None /\ paramCalled.signal # "route"

\* param(signal) (346-388), with the calls it makes of itself: it ends in
\* next(signal) (to: "next") or in paramCallback() (to: "callback")
RECURSIVE ParamWalk(_, _, _, _, _, _)
ParamWalk(r, keys, i, called, params, signal) ==
    IF signal # None \/ i >= Len(keys)
    THEN [to |-> "next", sig |-> signal, i |-> i, called |-> called,
          params |-> params, key |-> "", paramVal |-> <<>>]
    ELSE LET name == keys[i + 1]
             paramVal == IF name \in DOMAIN params THEN params[name] ELSE UndefStr
             paramCalled == called[name]
         IN  IF paramVal = UndefStr \/ Callbacks(r, name) = 0
             THEN ParamWalk(r, keys, i + 1, called, params, None)
             ELSE IF name \in DOMAIN called /\ Memoized(paramCalled, paramVal)
             THEN ParamWalk(r, keys, i + 1, called,
                            [params EXCEPT ![name] = paramCalled.value],
                            paramCalled.signal)
             ELSE [to |-> "callback", sig |-> None, i |-> i + 1,
                   called |-> [n \in DOMAIN called \cup {name} |->
                                 IF n = name
                                 THEN [signal |-> None, match |-> paramVal,
                                       value |-> paramVal]
                                 ELSE called[n]],
                   params |-> params, key |-> name, paramVal |-> paramVal]

\* the keys param() passes over, calling itself for each (346-369), and the
\* calls that takes
ParamPassed(f, w) == w.i - f.i
ParamCalls(passed) == IF passed > 1 THEN passed ELSE 1

param ==
    /\ pc = "param"
    /\ \E f \in {Top}, keys \in {LayerKeys(routers[Top.r].stack[Top.li].path)} :
       \E w \in {ParamWalk(f.r, keys, f.i, f.paramcalled, ctx.params, sig)} :
           /\ frames' = SetTop([f EXCEPT !.i = w.i, !.paramcalled = w.called,
                                         !.paramIndex = IF w.to = "callback" THEN 0 ELSE @,
                                         !.key = IF w.to = "callback" THEN w.key ELSE @,
                                         !.paramVal = IF w.to = "callback" THEN w.paramVal ELSE @])
           /\ ctx' = [ctx EXCEPT !.params = w.params]
           /\ pc' = IF w.to = "callback" THEN "paramCallback" ELSE "params_next"
           /\ sig' = w.sig
           /\ depth' = depth + ParamCalls(ParamPassed(f, w))
    /\ UNCHANGED <<routers, scratch, callee, log, family, parked, probe, reg>>

\* a paramCallback that goes on to the next callback whatever the signal
AfterCallback_Onward(signal, hasMiddleware) ==
    IF ~hasMiddleware THEN "param" ELSE "paramMiddleware"

\* where paramCallback(signal) goes (396-409): back to param with the
\* signal, to param when the callbacks of the name are used up, or to the
\* next callback
AfterCallback(signal, hasMiddleware) ==
    IF signal # None \/ ~hasMiddleware THEN "param" ELSE "paramMiddleware"

\* paramCallback(signal) (391-410)
paramCallback ==
    /\ pc = "paramCallback"
    /\ LET f == Top
           hasMiddleware == f.paramIndex < Callbacks(f.r, f.key)
           called2 == [f.paramcalled EXCEPT
                         ![f.key].value = ctx.params[f.key],
                         ![f.key].signal = IF sig # None THEN sig ELSE @]
       IN  /\ frames' = SetTop([f EXCEPT !.paramIndex = @ + 1,
                                         !.paramcalled = called2])
           /\ pc' = AfterCallback(sig, hasMiddleware)
    /\ depth' = depth + 1
    /\ UNCHANGED <<routers, scratch, ctx, sig, callee, log, family, parked, probe, reg>>

\* a parameter callback runs: paramMiddleware(ctx, paramCallback, paramVal,
\* key.name) (409)
\* what a parameter callback may leave in ctx.params[name] when it calls its
\* continuation, which paramCallback stores as the updated value (395-396):
\* the first callback of a name of the family "memo" may rewrite the value,
\* the others leave it
Rewritten == <<"z">>
Rewrites(fam, k, paramVal) ==
    IF fam = "memo" /\ k = 1 THEN {paramVal, Rewritten} ELSE {paramVal}

\* paramMiddleware(ctx, paramCallback, paramVal, key.name) (409): the event
\* holds the context as the callback leaves it
ParamMiddleware ==
    /\ pc = "paramMiddleware"
    /\ \E out \in CallbackBehaviours(family) :
       \E v \in Rewrites(family, Top.paramIndex, ctx.params[Top.key]) :
         /\ ctx' = [ctx EXCEPT !.params[Top.key] = v]
         /\ log' = Append(log, [Ev("param", Top, ctx') EXCEPT
                                     !.name = Top.key, !.k = Top.paramIndex,
                                     !.val = Top.paramVal, !.out = out])
         /\ pc' = Settle(out, "paramCallback").pc
         /\ sig' = Settle(out, "paramCallback").sig
    /\ depth' = depth + 1
    /\ UNCHANGED <<routers, scratch, frames, callee, family, parked, probe, reg>>

\* a continuation that goes on to the handler whatever the signal
AfterParams_Deaf(signal, layer) ==
    IF layer.isRoute THEN "dispatch" ELSE "trim_prefix"

\* where the continuation router_next hands to process_params goes (272-283)
AfterParams(signal, layer) ==
    IF signal # None THEN "router_next"
    ELSE IF layer.isRoute THEN "dispatch"
    ELSE "trim_prefix"

\* the continuation router_next hands to process_params (272-283), with
\* Layer.handle_request (lib/Layer.js 68-77) for a Route's layer
params_next ==
    /\ pc = "params_next"
    /\ pc' = AfterParams(sig, routers[Top.r].stack[Top.li])
    /\ depth' = depth + 1
    /\ UNCHANGED <<routers, scratch, ctx, frames, sig, callee, log, family, parked, probe, reg>>

\* a base url that forgets the mounts above
BaseUrl_Flat(parentUrl, removed) ==
    IF removed[Len(removed)] = "/" THEN SubstrTo(removed, Len(removed) - 1)
    ELSE removed

\* ctx.baseUrl = parentUrl + (removed without its trailing slash)
\* (lib/index.js 306-309)
BaseUrl(parentUrl, removed) ==
    parentUrl \o (IF removed[Len(removed)] = "/"
                  THEN SubstrTo(removed, Len(removed) - 1) ELSE removed)

\* a trim that takes every match
Breaks_Anywhere(c) == TRUE

\* the path breaks after the matched prefix: `c && c !== '/' && c !== '.'`
\* is false (lib/index.js 289-290)
Breaks(c) == c = Undef \/ c = "/" \/ c = "."

\* a trim that reads layer.path when it runs
LayerPath_Scratch(f, scr) == scr[f.r][f.li].path

\* the layerPath trim_prefix is given: `const layerPath = layer.path` (269),
\* taken when the layer matched
LayerPath(f, scr) == f.layerPath

\* trim_prefix (286-316), with Layer.handle_request for a bare layer: the
\* middleware, or Router.routes()'s router(ctx, next) (52-61)
trim_prefix ==
    /\ pc = "trim_prefix"
    /\ LET f == Top
           layer == routers[f.r].stack[f.li]
           c == CharAt(f.path, Len(f.layerPath))
           trim == Len(f.layerPath) # 0
           removed == LayerPath(f, scratch)
           url1 == f.protohost \o SubstrFrom(ctx.url, Len(f.protohost) + Len(removed))
           slash == f.protohost = <<>> /\ CharAt(url1, 0) # "/"
           url2 == IF slash THEN <<"/">> \o url1 ELSE url1
           baseUrl == BaseUrl(f.parentUrl, removed)
       IN  IF trim /\ ~Breaks(c)
           THEN /\ pc' = "router_next"
                /\ UNCHANGED <<ctx, frames, callee>>
           ELSE /\ ctx' = IF trim
                          THEN [ctx EXCEPT !.url = url2, !.baseUrl = baseUrl]
                          ELSE ctx
                /\ frames' = IF trim
                             THEN SetTop([f EXCEPT !.removed = removed,
                                                   !.slashAdded = slash])
                             ELSE frames
                /\ pc' = IF layer.mount # 0 THEN "handle" ELSE "middleware"
                /\ callee' = IF layer.mount # 0 THEN layer.mount ELSE callee
    /\ sig' = None
    /\ depth' = depth + 1
    /\ UNCHANGED <<routers, scratch, log, family, parked, probe, reg>>

(***************************************************************************)
(* Route.dispatch (lib/Route.js 92-136).                                   *)
(***************************************************************************)
\* a dispatch that takes the verb of the request as it is
EffectiveMethod_AsIs(route, method) == Lower(method)

\* the verb Route.dispatch compares the layers' verbs with (lib/Route.js
\* 99-102): head becomes get on a Route with no head layer
EffectiveMethod(route, method) ==
    IF Lower(method) = "head" /\ ~SeqHas(route.methods, "head")
    THEN "get" ELSE Lower(method)

Route_dispatch ==
    /\ pc = "dispatch"
    /\ LET f == Top
           route == routers[f.r].stack[f.li]
           method == EffectiveMethod(route, ctx.method)
       IN  IF Len(route.stack) = 0
           THEN /\ pc' = "router_next"
                /\ frames' = frames
           ELSE /\ pc' = "routeNext"
                /\ frames' = Append(frames, [kind |-> "route", hid |-> f.hid,
                                             r |-> f.r, li |-> f.li, idx |-> 0,
                                             method |-> method])
    /\ sig' = None
    /\ depth' = depth + 1
    /\ UNCHANGED <<routers, scratch, ctx, callee, log, family, parked, probe, reg>>

\* a walk that stops at the first layer with a satisfied query, whatever its
\* verb
RECURSIVE RouteWalk_AnyVerb(_, _, _, _)
RouteWalk_AnyVerb(stack, idx, method, query) ==
    IF idx >= Len(stack) THEN idx + 1
    ELSE IF ~queryMatch(stack[idx + 1].query, query)
    THEN RouteWalk_AnyVerb(stack, idx + 1, method, query)
    ELSE idx + 1

\* the layers routeNext() passes over by calling itself (119-131): the index
\* after the layer to invoke, or Len(stack) + 1 when the walk passes the end
RECURSIVE RouteWalk(_, _, _, _)
RouteWalk(stack, idx, method, query) ==
    IF idx >= Len(stack) THEN idx + 1
    ELSE LET layer == stack[idx + 1]
         IN  IF layer.method # Undef /\ layer.method # method
             THEN RouteWalk(stack, idx + 1, method, query)
             ELSE IF ~queryMatch(layer.query, query)
             THEN RouteWalk(stack, idx + 1, method, query)
             ELSE idx + 1

\* what routeNext(signal) passes to the Route's continuation when it leaves
\* the Route (110-123): 'router' is passed on, 'route' is not
RouteSignal_Passed(signal) == signal

\* a Route that passes 'router' on whenever it is left other than by 'route'
RouteSignal_Ended(signal) == IF signal = "route" THEN None ELSE "router"

RouteSignal(signal) == IF signal = "router" THEN "router" ELSE None

\* the layers routeNext() passes over, calling itself for each (lib/Route.js
\* 119-131), and the calls that takes
WalkPassed(f, c, signal) ==
    IF signal = "route" \/ signal = "router" THEN 1
    ELSE RouteWalk(routers[f.r].stack[f.li].stack, f.idx, f.method, c.query) - f.idx
WalkCalls(passed) == passed

routeNext ==
    /\ pc = "routeNext"
    /\ LET f == Top
           stack == routers[f.r].stack[f.li].stack
           idx == RouteWalk(stack, f.idx, f.method, ctx.query)
       IN  IF sig = "route" \/ sig = "router" \/ idx > Len(stack)
           THEN /\ frames' = Pop
                /\ pc' = "router_next"
                /\ sig' = RouteSignal(sig)
           ELSE /\ frames' = SetTop([f EXCEPT !.idx = idx])
                /\ pc' = "middleware"
                /\ sig' = None
    /\ depth' = depth + WalkCalls(WalkPassed(Top, ctx, sig))
    /\ UNCHANGED <<routers, scratch, ctx, callee, log, family, parked, probe, reg>>

\* a middleware or a Route's handler runs: fn(ctx, next)
\* a handle_request that invokes the handler whatever it declares
Standard_Any(fn) == TRUE

\* a standard request handler (lib/Layer.js 71): one that declares no more
\* than three parameters
Standard(fn) == ~(fn.length > 3)

\* the layer whose handler the call on top of the stack is about to invoke:
\* a layer of the Route being dispatched, or a middleware layer of the
\* Router
Handling(f) ==
    IF f.kind = "route" THEN routers[f.r].stack[f.li].stack[f.idx]
    ELSE routers[f.r].stack[f.li]

\* Layer.handle_request (lib/Layer.js 68-77): the handler is invoked with
\* the continuation, or, if it is no standard request handler, the
\* continuation is called in its place
Middleware ==
    /\ pc = "middleware"
    /\ \E out \in Behaviours(family) :
         IF Standard(Handling(Top))
         THEN /\ log' = Append(log, [Ev("handler", Top, ctx) EXCEPT
                                     !.ri = IF Top.kind = "route" THEN Top.idx ELSE 0,
                                     !.out = out])
              /\ pc' = Settle(out, IF Top.kind = "route" THEN "routeNext"
                                    ELSE "router_next").pc
              /\ sig' = Settle(out, IF Top.kind = "route" THEN "routeNext"
                                     ELSE "router_next").sig
         ELSE /\ log' = log
              /\ pc' = IF Top.kind = "route" THEN "routeNext" ELSE "router_next"
              /\ sig' = None
    /\ depth' = depth + 1
    /\ UNCHANGED <<routers, scratch, ctx, frames, callee, family, parked, probe, reg>>

(***************************************************************************)
(* A rejection on its way back.  Every engine function returns the promise *)
(* of the call it makes (lib/index.js 203, 211, 272-283, 291, 316, 333,     *)
(* 349-409, lib/Route.js 96-134), so the promise a piece of user code got   *)
(* from its continuation rejects when anything the continuation went on to *)
(* raised: the innermost caller that awaits its continuation first.  User   *)
(* code that wrapped the call in try/catch sees the error, and raises it   *)
(* again, raises another, or returns (part_001 139-264); user code that    *)
(* did not wrap it passes the error on.                                    *)
(***************************************************************************)
\* the user code that called its continuation and whose promise of it has not
\* rejected yet
Awaiting(lg) ==
    {j \in 1..Len(lg) :
        /\ lg[j].e \in {"handler", "param"}
        /\ lg[j].out \in {None, "route", "router", "other"}
        /\ ~\E k \in 1..Len(lg) : lg[k].e = "catch" /\ lg[k].k = j}

Innermost(S) == CHOOSE j \in S : \A k \in S : k <= j

Rejection ==
    /\ pc = "rejecting"
    /\ IF Awaiting(log) = {}
       THEN /\ pc' = "rejected"
            /\ UNCHANGED <<log, sig>>
       ELSE \E e \in {sig, Oops, None} :
              /\ log' = Append(log, [Ev("catch", Top, ctx) EXCEPT
                                        !.k = Innermost(Awaiting(log)),
                                        !.val = <<sig>>, !.out = e])
              /\ sig' = e
              /\ pc' = IF e = None THEN "settled" ELSE "rejecting"
    /\ UNCHANGED <<routers, scratch, ctx, frames, callee, family, depth, parked, probe, reg>>

Next ==
    \/ Router_use
    \/ Router_method
    \/ Router_route
    \/ Route_method
    \/ Router_param
    \/ Router_routes
    \/ Request
    \/ handle
    \/ router_next
    \/ process_params
    \/ param
    \/ paramCallback
    \/ ParamMiddleware
    \/ params_next
    \/ trim_prefix
    \/ Route_dispatch
    \/ routeNext
    \/ Middleware
    \/ Rejection

Spec == Init /\ [][Next]_vars

(***************************************************************************)
(* Handlers of two and of four parameters, some mounted on a prefix, which *)
(* call next() or raise: the family "handlers".                            *)
(***************************************************************************)
HandlersInit ==
    /\ family = "handlers"
    /\ routers = [r \in RouterIds |-> NewRouter]
    /\ scratch = [r \in RouterIds |-> <<>>]
    /\ ctx = NoCtx
    /\ frames = <<>>
    /\ pc = "config"
    /\ sig = None
    /\ callee = 0
    /\ log = <<>>
    /\ probe = NoProbe
    /\ reg = NoReg
    /\ depth = 0
    /\ parked = NoParked

HandlersNext ==
    \/ Router_use
    \/ Router_method
    \/ Request
    \/ handle
    \/ router_next
    \/ process_params
    \/ params_next
    \/ trim_prefix
    \/ Route_dispatch
    \/ routeNext
    \/ Middleware
    \/ Rejection

SpecHandlers == HandlersInit /\ [][HandlersNext]_vars

\* the engine's functions between two calls of user code
EngineSteps ==
    \/ handle
    \/ router_next
    \/ process_params
    \/ param
    \/ paramCallback
    \/ params_next
    \/ trim_prefix
    \/ Route_dispatch
    \/ routeNext

\* user code that was called does one of the things it can do
UserSteps == ParamMiddleware \/ Middleware

\* the dispatch is inside the engine: one of EngineSteps can be taken
InEngine ==
    pc \in {"handle", "router_next", "process_params", "param", "paramCallback",
            "params_next", "trim_prefix", "dispatch", "routeNext"}

\* JavaScript runs a function to completion, and the engine's functions
\* await nothing: a dispatch does not rest inside the engine.  This is weak
\* fairness of EngineSteps, with InEngine for ENABLED <<EngineSteps>>_vars.
RunToCompletion == []<>(~InEngine) \/ []<><<EngineSteps>>_vars

\* Nothing is asked of the host: it may register nothing more and send no
\* request.
SpecLive == Init /\ [][Next]_vars /\ RunToCompletion /\ WF_vars(UserSteps)

(***************************************************************************)
(* Layer.queryMatch on its own: a new Layer is given a query condition     *)
(* (layer.query = newQuery, as Router.use, Router.route and Route.method   *)
(* do) and is then asked about the query of a request.                     *)
(***************************************************************************)
One == <<"1">>
Two == <<"2">>
Four == <<"4">>
FalseText == <<"f", "a", "l", "s", "e">>
NullText == <<"n", "u", "l", "l">>
ArrayText == <<"[", "1", ",", " ", "2", "]">>

\* what a condition declares for the key state, and for the key page
StateDeclared ==
    { Declared("state", JSString(Started)),
      Declared("state", JSRegExp(<<"i", "n", "g">>, TRUE)),
      Declared("state", JSRegExp(<<"d">>, FALSE)),
      Declared("state", JSArray(<<Started, Progressing>>)),
      Declared("state", JSFunction("even")),
      Declared("state", JSFunction("absent")),
      Declared("state", JSNumber(1)),
      Declared("state", JSBoolean(FALSE)),
      Declared("state", JSNull),
      Declared("state", JSObject) }
PageDeclared ==
    { Declared("page", JSString(Two)),
      Declared("page", JSNumber(2)) }

\* the conditions a Layer is given: none, an empty one, one key, two keys
QueryConditions ==
    {UndefQuery, QueryObject(<<>>)}
        \cup {QueryObject(<<d>>) : d \in StateDeclared}
        \cup {QueryObject(<<d, e>>) : d \in StateDeclared, e \in PageDeclared}

\* the queries of the requests: each key present or not
ActualQueries ==
    {EmptyParams, [k \in {"page"} |-> Two]}
        \cup {[k \in {"state"} |-> v] :
                 v \in {Started, Progressing, End, One, Four, FalseText,
                        NullText, ArrayText, <<>>}}
        \cup {[k \in {"state", "page"} |-> IF k = "page" THEN Two ELSE v] :
                 v \in {Started, Progressing, End, One, Four, FalseText,
                        NullText, ArrayText, <<>>}}

QueryInit ==
    /\ family = "queries"
    /\ routers = [r \in RouterIds |-> NewRouter]
    /\ scratch = [r \in RouterIds |-> <<>>]
    /\ ctx = NoCtx
    /\ frames = <<>>
    /\ pc = "config"
    /\ sig = None
    /\ callee = 0
    /\ log = <<>>
    /\ reg = NoReg
    /\ depth = 0
    /\ parked = NoParked
    /\ probe \in {[NoProbe EXCEPT !.at = "new", !.actualQuery = q] :
                     q \in ActualQueries}

\* layer.query = newQuery (lib/Layer.js 146-171)
Layer_setQuery ==
    /\ probe.at = "new"
    /\ \E newQuery \in QueryConditions :
         probe' = [probe EXCEPT !.at = "set", !.given = newQuery,
                                !.query = SetQuery(newQuery)]
    /\ UNCHANGED <<routers, scratch, ctx, frames, pc, sig, callee, log, family, depth, parked, reg>>

\* layer.queryMatch(ctx.query) (lib/Layer.js 180-186)
Layer_queryMatch ==
    /\ probe.at = "set"
    /\ probe' = [probe EXCEPT !.at = "asked",
                              !.result = queryMatch(probe.query, probe.actualQuery)]
    /\ UNCHANGED <<routers, scratch, ctx, frames, pc, sig, callee, log, family, depth, parked, reg>>

QueryNext ==
    \/ Layer_setQuery
    \/ Layer_queryMatch

SpecQuery == QueryInit /\ [][QueryNext]_vars

(***************************************************************************)
(* A specification of two requests in flight on the same Routers.  The     *)
(* engine's functions have no await: from the call of a continuation to    *)
(* the next call of user code they run without a break.  User code may     *)
(* await (the parameter callback of part_001 667-672 awaits a timer), and   *)
(* the other request runs meanwhile; the Routers and the scratch fields of *)
(* their layers are shared, everything else is the request's own.          *)
(***************************************************************************)
ParInit ==
    /\ family = "parallel"
    /\ routers = [r \in RouterIds |-> NewRouter]
    /\ scratch = [r \in RouterIds |-> <<>>]
    /\ ctx = NoCtx
    /\ frames = <<>>
    /\ pc = "config"
    /\ sig = None
    /\ callee = 0
    /\ log = <<>>
    /\ probe = NoProbe
    /\ reg = NoReg
    /\ depth = 0
    /\ parked = NoParked

\* the request in user code, or finished, is set aside and the other one runs
Switch ==
    /\ pc \in {"middleware", "paramMiddleware", "finished"}
    /\ parked.pc \notin {"none", "finished"}
    /\ ctx' = parked.ctx
    /\ frames' = parked.frames
    /\ pc' = parked.pc
    /\ sig' = parked.sig
    /\ callee' = parked.callee
    /\ log' = parked.log
    /\ depth' = parked.depth
    /\ parked' = [ctx |-> ctx, frames |-> frames, pc |-> pc, sig |-> sig,
                  callee |-> callee, log |-> log, depth |-> depth]
    /\ UNCHANGED <<routers, scratch, family, probe, reg>>

ParNext ==
    \/ Router_use
    \/ Router_method
    \/ Router_param
    \/ Request
    \/ handle
    \/ router_next
    \/ process_params
    \/ param
    \/ paramCallback
    \/ ParamMiddleware
    \/ params_next
    \/ trim_prefix
    \/ Route_dispatch
    \/ routeNext
    \/ Middleware
    \/ Switch

SpecPar == ParInit /\ [][ParNext]_vars

(***************************************************************************)
(* Layer.match on its own: a Layer is made for a pattern and a query       *)
(* condition, and is asked about paths and queries, one call after the     *)
(* other; params and lpath are its fields this.params and this.path.       *)
(***************************************************************************)
MatchPatterns == {PRoot, PStar, PA, PAU, PUB}
MatchPaths == {UrlRoot, UrlA, UrlB, UrlAB, UrlABB}
MatchQueries == {EmptyParams, QueryOf(Started), QueryOf(End)}

\* the layers of Router.route (end: true) and of Router.use (end: false)
MatchLayers ==
    {[RouteLayer(p, q, FALSE) EXCEPT !.end = e, !.isRoute = e] :
        p \in MatchPatterns, q \in {NoQuery, QStarted}, e \in BOOLEAN}

MatchInit ==
    /\ family = "match"
    /\ routers = [r \in RouterIds |-> NewRouter]
    /\ scratch = [r \in RouterIds |-> <<>>]
    /\ ctx = NoCtx
    /\ frames = <<>>
    /\ pc = "config"
    /\ sig = None
    /\ callee = 0
    /\ log = <<>>
    /\ reg = NoReg
    /\ depth = 0
    /\ parked = NoParked
    /\ probe \in {[at |-> "made", layer |-> l, path |-> UndefStr,
                    actualQuery |-> EmptyParams, match |-> FALSE,
                    params |-> NoParams, lpath |-> UndefStr] :
                     l \in MatchLayers}

\* layer.match(path, query) (lib/Layer.js 89-136)
Layer_match ==
    /\ probe.at \in {"made", "matched"}
    /\ \E path \in MatchPaths, query \in MatchQueries :
       \E m \in {LayerMatch(probe.layer, path, query)} :
         probe' = [probe EXCEPT !.at = "matched", !.path = path,
                                !.actualQuery = query, !.match = m.match,
                                !.params = m.params, !.lpath = m.path]
    /\ UNCHANGED <<routers, scratch, ctx, frames, pc, sig, callee, log, family, depth, parked,
                   reg>>

MatchNext == Layer_match

SpecMatch == MatchInit /\ [][MatchNext]_vars

(***************************************************************************)
(* A fifth specification: the captures of one matched layer and the params *)
(* the Router was entered with, and the ctx.params a Router with           *)
(* mergeParams: true makes of them (lib/index.js 265-268).  A capture is    *)
(* the pair of its side and its key.                                       *)
(***************************************************************************)
\* the objects with the first n positional captures and the named ones
Captures(side) ==
    {[k \in {Pos(i) : i \in 0..(n - 1)} \cup names |-> <<side, k>>] :
        n \in 0..MaxPositional, names \in SUBSET ParamNames}

MergeInit ==
    /\ family = "merge"
    /\ routers = [r \in RouterIds |-> [NewRouter EXCEPT !.mergeParams = TRUE]]
    /\ scratch = [r \in RouterIds |-> <<>>]
    /\ ctx = NoCtx
    /\ frames = <<>>
    /\ pc = "config"
    /\ sig = None
    /\ callee = 0
    /\ log = <<>>
    /\ reg = NoReg
    /\ depth = 0
    /\ parked = NoParked
    /\ probe \in {[at |-> "matched", params |-> c, parentParams |-> p,
                    merged |-> NoParams] :
                     c \in Captures("child"),
                     p \in Captures("parent") \cup {NoParams}}

\* ctx.params = self.mergeParams ? mergeParams(layer.params, parentParams)
\*                               : layer.params (lib/index.js 265-267)
Router_mergeParams ==
    /\ probe.at = "matched"
    /\ probe' = [probe EXCEPT
                   !.at = "merged",
                   !.merged = IF routers[1].mergeParams
                              THEN mergeParams(probe.params, probe.parentParams)
                              ELSE probe.params]
    /\ UNCHANGED <<routers, scratch, ctx, frames, pc, sig, callee, log, family, depth, parked,
                   reg>>

MergeNext == Router_mergeParams

SpecMerge == MergeInit /\ [][MergeNext]_vars

(***************************************************************************)
(* What the log says.                                                      *)
(***************************************************************************)
LogIdx == 1..Len(log)

\* the handle calls that have started, and those that done() has ended
Calls == {j \in LogIdx : log[j].e = "handle"}
Completed(h) == \E j \in LogIdx : log[j].e = "done" /\ log[j].hid = h

\* the handler of layer ri of the Route at layer li was invoked in call h
Invoked(h, li, ri) ==
    \E j \in LogIdx :
        /\ log[j].e = "handler"
        /\ log[j].hid = h /\ log[j].li = li /\ log[j].ri = ri

\* a request path against a pattern, a query against a condition, a verb
\* against layer ri of a Route (HEAD falls back to the GET layers of a Route
\* that has no HEAD layer)
PathMatches(layer, path) ==
    path # NullPath /\ RegexpExec(layer.path, layer.end, path).ok

\* the request's value for a key is what the declared value asks for: a
\* string is equal to it, a regular expression tests it, a sequence of
\* strings has it, a predicate function returns a truthy result for it, and
\* any other declared value is strictly equal to the value parsed as JSON
Meets(declared, value) ==
    CASE declared.expected.t = "string" -> value = declared.expected.text
      [] declared.expected.t = "regexp" ->
           RegExp_exec(declared.expected, ToText(value))
      [] declared.expected.t = "array" ->
           \E k \in 1..Len(declared.expected.items) :
               declared.expected.items[k] = value
      [] declared.expected.t = "function" ->
           CallPredicate(declared.expected.name, value)
      [] OTHER -> /\ JSONParse(value).ok
                  /\ StrictEquals(declared.expected, JSONParse(value).val)

Satisfies(cond, q) ==
    \A i \in 1..Len(cond) :
        Meets(cond[i], IF cond[i].key \in DOMAIN q THEN q[cond[i].key] ELSE UndefStr)

VerbMatches(route, ri, method) ==
    \/ route.stack[ri].method = Undef
    \/ route.stack[ri].method = Lower(method)
    \/ /\ Lower(method) = "head" /\ route.stack[ri].method = "get"
       /\ \A i \in 1..Len(route.stack) : route.stack[i].method # "head"

\* the three criteria for the handler of layer ri of the Route at layer li
\* of Router r, on a request with this path
Eligible(r, li, ri, path) ==
    LET layer == routers[r].stack[li]
    IN  /\ PathMatches(layer, path)
        /\ Satisfies(layer.query, ctx.query)
        /\ Satisfies(layer.stack[ri].query, ctx.query)
        /\ VerbMatches(layer, ri, ctx.method)

RouteHandlers(r) ==
    {p \in (1..Len(routers[r].stack)) \X (1..MaxLayers + 1) :
        /\ routers[r].stack[p[1]].isRoute
        /\ p[2] <= Len(routers[r].stack[p[1]].stack)}

\* position (li, ri) comes before position (li2, ri2) in a Router's scan
Before(li, ri, li2, ri2) == li < li2 \/ (li = li2 /\ ri < ri2)

\* every handler the log shows was invoked on a matching path, a satisfied
\* query and a matching verb
C1_OnlyIf ==
    \A j \in LogIdx :
        (log[j].e = "handler" /\ log[j].ri > 0) =>
            Eligible(log[j].r, log[j].li, log[j].ri, getPathname(log[j].url))

\* a handler or parameter callback of call h, at a position before (li, ri),
\* that did not call its continuation with no signal
Diverted(h, li, ri) ==
    \E j \in LogIdx :
        /\ log[j].hid = h
        /\ log[j].e \in {"handler", "param"}
        /\ log[j].out # None
        /\ Before(log[j].li, log[j].ri, li, ri)

LayerEvents == {"layer", "param", "handler"}

\* the scan index of every handle call in progress stays or grows
ScanAdvances ==
    \A d \in 1..Len(frames) :
        (/\ frames[d].kind = "router"
         /\ d <= Len(frames')
         /\ frames'[d].hid = frames[d].hid)
            => frames'[d].idx >= frames[d].idx

\* within one handle call the events come in the order of the stack
InStackOrder ==
    \A j, k \in LogIdx :
        (/\ j < k
         /\ log[j].hid = log[k].hid
         /\ log[j].e \in LayerEvents /\ log[k].e \in LayerEvents)
            => /\ log[j].li <= log[k].li
               /\ (log[j].e = "layer" /\ log[k].e = "layer") => log[j].li < log[k].li
               /\ (log[j].e = "handler" /\ log[k].e = "handler") =>
                      /\ Before(log[j].li, log[j].ri, log[k].li, log[k].ri)
                      /\ log[j].out # "stall"

\* the handle calls in progress have scanned as far as the log says
ScanCoversLog ==
    \A d \in 1..Len(frames) : \A j \in LogIdx :
        (frames[d].kind = "router" /\ log[j].hid = frames[d].hid
            /\ log[j].e \in LayerEvents)
            => log[j].li <= frames[d].idx

\* C2: within one Router.handle call the layers are considered in strictly
\* increasing registration index: the scan index never decreases, no layer
\* is matched or invoked twice, and the handler of a later layer starts only
\* after every handler of that Router invoked before it has called its
\* continuation.
C2_ScanOrder == [](InStackOrder /\ ScanCoversLog) /\ [][ScanAdvances]_vars

\* a dispatch has ended in which two layers of one Router each had their
\* handler invoked, the second inside a handle call of a mounted Router
C2_Witness ==
    /\ pc = "finished"
    /\ \E j, k \in LogIdx :
          /\ j < k
          /\ log[j].e = "handler" /\ log[k].e = "handler"
          /\ log[j].hid = log[k].hid /\ log[j].li < log[k].li
          /\ log[j].hid > 1

\* the handlers of Routes that called next('route')
RouteSkips ==
    {j \in LogIdx : log[j].e = "handler" /\ log[j].ri > 0 /\ log[j].out = "route"}

\* after event j, a handler or callback of the same call, at a position
\* before (li, ri), did not call its continuation with no signal
DivertedAfter(h, j, li, ri) ==
    \E m \in LogIdx :
        /\ m > j
        /\ log[m].hid = h
        /\ log[m].e \in {"handler", "param"}
        /\ log[m].out # None
        /\ Before(log[m].li, log[m].ri, li, ri)

\* C3: when a handler inside a Route calls its continuation with 'route', no
\* remaining layer of that Route is invoked, the Route's own continuation is
\* called with no signal, and the enclosing Router resumes scanning at the
\* layer registered after that Route, so that a later layer matching the
\* same path and verb still runs.
C3_RouteSignal ==
    \A j \in RouteSkips :
        /\ \A m \in LogIdx :
              (m > j /\ log[m].hid = log[j].hid /\ log[m].e \in LayerEvents)
                  => log[m].li > log[j].li
        /\ (j = Len(log) /\ pc = "routeNext") => sig = "route"
        /\ (j = Len(log) /\ pc # "routeNext") =>
              /\ pc = "router_next"
              /\ sig = None
              /\ Top.kind = "router" /\ Top.hid = log[j].hid
              /\ Top.idx = log[j].li
        /\ Completed(log[j].hid) =>
              \A p \in RouteHandlers(log[j].r) :
                  (/\ p[1] > log[j].li
                   /\ Eligible(log[j].r, p[1], p[2], getPathname(log[j].url))
                   /\ ~DivertedAfter(log[j].hid, j, p[1], p[2]))
                      => Invoked(log[j].hid, p[1], p[2])

\* the first handler of a Route of two called next('route'), the second
\* was not invoked, and the handler of a later Route on the same path ran
C3_Witness ==
    /\ pc = "finished"
    /\ \E j \in RouteSkips :
          /\ log[j].ri = 1
          /\ Len(routers[log[j].r].stack[log[j].li].stack) = 2
          /\ Eligible(log[j].r, log[j].li, 2, getPathname(log[j].url))
          /\ ~Invoked(log[j].hid, log[j].li, 2)
          /\ \E m \in LogIdx :
                /\ m > j /\ log[m].e = "handler" /\ log[m].hid = log[j].hid
                /\ log[m].li > log[j].li /\ log[m].ri > 0

\* the handlers that called next('router')
RouterSkips == {j \in LogIdx : log[j].e = "handler" /\ log[j].out = "router"}

\* the handle event of the call that mounted call h (0: the host)
Parent(h) == log[h].phid

\* C4: when any handler calls its continuation with 'router', no further
\* layer of that Router is invoked in this handle call and the continuation
\* the Router was given is called with no signal; the signal ends only the
\* innermost Router, whose parent resumes scanning at its next layer.
C4_RouterSignal ==
    \A j \in RouterSkips :
        /\ j < Len(log) => (log[j + 1].e = "done" /\ log[j + 1].hid = log[j].hid)
        /\ j = Len(log) => (pc \in {"routeNext", "router_next"} /\ sig = "router")
        /\ (j + 1 = Len(log) /\ Parent(log[j].hid) = 0) =>
              (pc = "finished" /\ frames = <<>> /\ sig = None)
        /\ (j + 1 = Len(log) /\ Parent(log[j].hid) # 0) =>
              /\ pc = "router_next"
              /\ sig = None
              /\ Top.kind = "router" /\ Top.hid = Parent(log[j].hid)
              /\ Top.idx = log[log[j].hid].li
        /\ (Parent(log[j].hid) # 0 /\ Completed(Parent(log[j].hid))) =>
              \A p \in RouteHandlers(log[Parent(log[j].hid)].r) :
                  (/\ p[1] > log[log[j].hid].li
                   /\ Eligible(log[Parent(log[j].hid)].r, p[1], p[2],
                               getPathname(log[Parent(log[j].hid)].url))
                   /\ ~DivertedAfter(Parent(log[j].hid), j, p[1], p[2]))
                      => Invoked(Parent(log[j].hid), p[1], p[2])

\* the first handler of a Route of a mounted Router called next('router')
\* with a handler of that Router still ahead, which was not invoked, and a
\* later Route of the parent ran
C4_Witness ==
    /\ pc = "finished"
    /\ \E j \in RouterSkips :
          /\ log[j].ri = 1
          /\ Parent(log[j].hid) # 0
          /\ Len(routers[log[j].r].stack[log[j].li].stack) = 2
          /\ Eligible(log[j].r, log[j].li, 2, getPathname(log[j].url))
          /\ ~Invoked(log[j].hid, log[j].li, 2)
          /\ \E m \in LogIdx :
                /\ m > j /\ log[m].e = "handler"
                /\ log[m].hid = Parent(log[j].hid)
                /\ log[m].li > log[log[j].hid].li

(***************************************************************************)
(* Parameter callbacks in the log.                                         *)
(***************************************************************************)
\* the invocations of callback k of name n in call h
ParamEv(h, n, k) ==
    {j \in LogIdx : /\ log[j].e = "param" /\ log[j].hid = h
                    /\ log[j].name = n /\ log[j].k = k}

\* what the layer of layer event j captured for name n
Captured(j, n) ==
    IF n \in DOMAIN log[j].params THEN log[j].params[n] ELSE UndefStr

\* the layers matched in call h that captured a value for n
Capturing(h, n) ==
    {j \in LogIdx : /\ log[j].e = "layer" /\ log[j].hid = h
                    /\ Captured(j, n) # UndefStr}

\* the handler of the layer of layer event j ran: a middleware, the first
\* handler of a Route, or the handle of a mounted Router
HandlerRan(j) ==
    \E m \in LogIdx :
        /\ m > j
        /\ log[m].li = log[j].li
        /\ \/ log[m].e = "handler" /\ log[m].hid = log[j].hid
           \/ log[m].e = "handle" /\ log[m].phid = log[j].hid

\* the scan has gone past the layer of layer event j
Settled(j) ==
    \E m \in LogIdx :
        m > j /\ log[m].hid = log[j].hid /\ log[m].e \in {"layer", "done"}

\* every parameter callback invoked in call h called its continuation with
\* no signal
Quiet(h) ==
    \A m \in LogIdx :
        (log[m].e = "param" /\ log[m].hid = h) => log[m].out = None

\* several layers matched in call h captured n, all with one value
SameValue(h, n) ==
    /\ Callbacks(log[h].r, n) > 0
    /\ Cardinality(Capturing(h, n)) >= 2
    /\ Cardinality({Captured(j, n) : j \in Capturing(h, n)}) = 1

OnceAndHandlersRun(h, n) ==
    /\ \A k \in 1..Callbacks(log[h].r, n) : Cardinality(ParamEv(h, n, k)) = 1
    /\ \A j \in Capturing(h, n) : Settled(j) => HandlerRan(j)

\* C5 as the specification states it: during one handle call, a parameter
\* callback registered for N is invoked exactly once when several sibling
\* layers capture N with the same value, and the handler of every such
\* layer still runs.
C5_AsStated ==
    \A h \in Calls : \A n \in ParamNames :
        SameValue(h, n) => OnceAndHandlersRun(h, n)

\* C5, amended: during one handle call in which every parameter callback
\* invoked calls its continuation with no signal, a parameter callback
\* registered for N is invoked exactly once when several sibling layers
\* capture N with the same value, and the handler of every such layer still
\* runs.
C5_Memo ==
    \A h \in Calls : \A n \in ParamNames :
        (SameValue(h, n) /\ Quiet(h)) => OnceAndHandlersRun(h, n)

\* two mounts on one pattern captured the same value, the callback ran
\* once, and the second mount's handler ran
C5_Witness ==
    /\ pc = "finished"
    /\ \E n \in ParamNames :
          /\ SameValue(1, n) /\ Quiet(1)
          /\ Cardinality(ParamEv(1, n, 1)) = 1
          /\ \E j \in Capturing(1, n) :
                /\ \E i \in Capturing(1, n) : i < j
                /\ HandlerRan(j)

\* C6: in one handle call each parameter callback for a name N is invoked
\* at most once per distinct captured value V, also when the values captured
\* for N alternate across successive layers (V, then W, then V again).
C6_OncePerValue ==
    \A h \in Calls : \A n \in ParamNames : \A k \in 1..MaxCallbacks + 1 :
        \A i, j \in ParamEv(h, n, k) : log[i].val = log[j].val => i = j

\* the values captured for n by the layers matched in call h, as pairs of
\* successive layer events
Successive(h, n) ==
    {p \in Capturing(h, n) \X Capturing(h, n) :
        /\ p[1] < p[2]
        /\ \A m \in Capturing(h, n) : ~(p[1] < m /\ m < p[2])}

Changes(h, n) ==
    Cardinality({p \in Successive(h, n) : Captured(p[1], n) # Captured(p[2], n)})

\* the layer event of the layer that event j belongs to
LayerOf(j) ==
    CHOOSE l \in LogIdx :
        /\ l < j /\ log[l].e = "layer" /\ log[l].hid = log[j].hid
        /\ \A m \in LogIdx :
              (m < j /\ log[m].e = "layer" /\ log[m].hid = log[j].hid) => m <= l

\* C7: when two layers matched during one handle call capture the same name
\* with different values and no resolution before raised a signal, the
\* callbacks are invoked again for the second value, so that in a call that
\* has ended with no signal from a callback each callback of the name was
\* invoked once per change of value plus one; and every callback is passed
\* the value captured by the layer being processed.
C7_ValueChange ==
    /\ \A j \in LogIdx :
          log[j].e = "param" =>
              /\ log[LayerOf(j)].li = log[j].li
              /\ log[j].val = Captured(LayerOf(j), log[j].name)
    /\ \A h \in Calls : \A n \in ParamNames :
          (Callbacks(log[h].r, n) > 0 /\ Quiet(h)) =>
              /\ \A p \in Successive(h, n) :
                    (Captured(p[1], n) # Captured(p[2], n) /\ Settled(p[2])) =>
                        \A k \in 1..Callbacks(log[h].r, n) :
                            \E m \in ParamEv(h, n, k) :
                                /\ m > p[2]
                                /\ LayerOf(m) = p[2]
                                /\ log[m].val = Captured(p[2], n)
              /\ (Completed(h) /\ Capturing(h, n) # {}) =>
                    \A k \in 1..Callbacks(log[h].r, n) :
                        Cardinality(ParamEv(h, n, k)) = Changes(h, n) + 1

\* a dispatch has ended in which successive layers captured different
\* values for a name and its callback ran for each of them
C7_Witness ==
    /\ pc = "finished"
    /\ \E n \in ParamNames :
          /\ Callbacks(1, n) > 0 /\ Quiet(1)
          /\ Changes(1, n) = 1
          /\ Cardinality(ParamEv(1, n, 1)) = 2

\* the invocations of a layer's handler: a middleware, a handler of a Route,
\* or the handle of a mounted Router; with the call and Router of the layer
HandlerStarts ==
    {j \in LogIdx : \/ log[j].e = "handler"
                    \/ log[j].e = "handle" /\ log[j].phid # 0}

CallOf(j) == IF log[j].e = "handle" THEN log[j].phid ELSE log[j].hid

\* the layer event of the layer whose handler starts at event j
MatchOf(j) ==
    CHOOSE l \in LogIdx :
        /\ l < j /\ log[l].e = "layer" /\ log[l].hid = CallOf(j)
        /\ \A m \in LogIdx :
              (m < j /\ log[m].e = "layer" /\ log[m].hid = CallOf(j)) => m <= l

\* the place of a name among the keys of a layer's pattern
KeyIndex(keys, n) == CHOOSE x \in 1..Len(keys) : keys[x] = n

KeysOf(l) == LayerKeys(routers[log[l].r].stack[log[l].li].path)

\* C8 as the specification states it: for a matched layer with named
\* captures, all the parameter callbacks registered for those captures run,
\* captures in declaration order and the callbacks of a name in registration
\* order, each receiving the captured value and the name, and all have
\* called their continuation with no signal before the layer's handler is
\* invoked; the handler observes ctx.params[name] equal to the captured
\* value; captures with no value or no registered callback are skipped.
C8_AsStated ==
    /\ \A j \in HandlerStarts :
          /\ log[MatchOf(j)].li = log[j].li
          /\ \A n \in ParamNames :
                Captured(MatchOf(j), n) # UndefStr =>
                    /\ n \in DOMAIN log[j].params
                    /\ log[j].params[n] = Captured(MatchOf(j), n)
                    /\ \A k \in 1..Callbacks(log[MatchOf(j)].r, n) :
                          \E m \in ParamEv(CallOf(j), n, k) :
                              /\ m < j
                              /\ log[m].val = Captured(MatchOf(j), n)
                              /\ log[m].out = None
    /\ \A m \in LogIdx :
          log[m].e = "param" =>
              /\ Captured(LayerOf(m), log[m].name) # UndefStr
              /\ log[m].k \in 1..Callbacks(log[m].r, log[m].name)
              /\ \A m2 \in LogIdx :
                    (/\ m < m2 /\ log[m2].e = "param"
                     /\ log[m2].hid = log[m].hid /\ LayerOf(m2) = LayerOf(m))
                        => \/ KeyIndex(KeysOf(LayerOf(m)), log[m].name)
                                < KeyIndex(KeysOf(LayerOf(m)), log[m2].name)
                           \/ /\ log[m].name = log[m2].name
                              /\ log[m].k < log[m2].k

\* the callbacks of name n invoked before event j in the call of j, and the
\* value the last of them left in ctx.params[n]
ParamsBefore(j, n) ==
    {m \in LogIdx : /\ m < j /\ log[m].e = "param"
                     /\ log[m].hid = CallOf(j) /\ log[m].name = n}

Left(j, n) ==
    log[CHOOSE m \in ParamsBefore(j, n) :
            \A x \in ParamsBefore(j, n) : x <= m].params[n]

\* C8, amended: for a matched layer with named captures, all the parameter
\* callbacks registered for those captures run, captures in declaration
\* order and the callbacks of a name in registration order, each receiving
\* the captured value and the name, and all have called their continuation
\* with no signal before the layer's handler is invoked; the handler
\* observes in ctx.params[name] the value the callbacks of the name left
\* there, which is the captured value unless a callback assigned another,
\* and the captured value for a name with no callback; captures with no
\* value or no registered callback are skipped.
C8_BeforeHandler ==
    /\ \A j \in HandlerStarts : \A l \in {MatchOf(j)} :
          /\ log[l].li = log[j].li
          /\ \A n \in {x \in ParamNames : Captured(l, x) # UndefStr} :
                /\ n \in DOMAIN log[j].params
                /\ log[j].params[n] =
                      IF Callbacks(log[l].r, n) > 0 THEN Left(j, n)
                      ELSE log[l].params[n]
                /\ (\A m \in ParamsBefore(j, n) : log[m].params[n] = log[m].val)
                      => log[j].params[n] = log[l].params[n]
                /\ \A k \in 1..Callbacks(log[l].r, n) :
                      \E m \in ParamEv(CallOf(j), n, k) :
                          /\ m < j
                          /\ log[m].val = log[l].params[n]
                          /\ log[m].out = None
    /\ \A m \in LogIdx :
          log[m].e = "param" =>
              /\ Captured(LayerOf(m), log[m].name) # UndefStr
              /\ log[m].k \in 1..Callbacks(log[m].r, log[m].name)
              /\ \A m2 \in LogIdx :
                    (/\ m < m2 /\ log[m2].e = "param"
                     /\ log[m2].hid = log[m].hid /\ LayerOf(m2) = LayerOf(m))
                        => \/ KeyIndex(KeysOf(LayerOf(m)), log[m].name)
                                < KeyIndex(KeysOf(LayerOf(m)), log[m2].name)
                           \/ /\ log[m].name = log[m2].name
                              /\ log[m].k < log[m2].k

\* the handler of a Route whose pattern has two captures was invoked after
\* two callbacks of the first name and one of the second had run
C8_Witness ==
    \E j \in LogIdx :
        /\ log[j].e = "handler" /\ log[j].ri = 1
        /\ Len(KeysOf(MatchOf(j))) = 2
        /\ Callbacks(log[j].r, KeysOf(MatchOf(j))[1]) = 2
        /\ Callbacks(log[j].r, KeysOf(MatchOf(j))[2]) = 1
        /\ \E m \in ParamEv(log[j].hid, KeysOf(MatchOf(j))[2], 1) : m < j

(***************************************************************************)
(* Urls in the log.                                                        *)
(***************************************************************************)
\* the scheme and host a url begins with: up to the first "/" or "?" after
\* a "://" that comes before any "?", in a url that does not start with "/"
SchemeHost(u) ==
    IF u = <<>> \/ u[1] = "/" THEN <<>>
    ELSE LET p == IndexOfSub(UpToQuery(u), <<":", "/", "/">>)
         IN  IF p = -1 THEN <<>>
             ELSE SubstrTo(u, p + 3 + HostEnd(SubstrFrom(u, p + 3)))

\* url u with the prefix removed from the start of its path, and a leading
\* "/" when the remainder has none and u has no scheme and host
TrimmedUrl(u, prefix) ==
    LET ph == SchemeHost(u)
        rest == SubstrFrom(u, Len(ph))
        cut == IF StartsWith(rest, prefix) THEN SubstrFrom(rest, Len(prefix))
               ELSE rest
    IN  IF ph = <<>> /\ (cut = <<>> \/ cut[1] # "/") THEN <<"/">> \o cut
        ELSE ph \o cut

\* the starts of the handlers of bare layers that matched a prefix
TrimmedStarts ==
    {j \in HandlerStarts :
        /\ ~routers[log[MatchOf(j)].r].stack[log[MatchOf(j)].li].isRoute
        /\ log[MatchOf(j)].val # <<>>}

\* C9: inside a bare middleware mounted at a non-root path, ctx.url is the
\* url of the request with exactly the matched prefix removed from the start
\* of its path (the query kept, a leading "/" added when the remainder has
\* none and there is no scheme and host); when the middleware calls its
\* continuation, ctx.url is again the url before trimming, so that every
\* later sibling layer, every handler of a Route and the continuation the
\* Router was given see the untrimmed url.
C9_TrimRestore ==
    /\ \A j \in TrimmedStarts :
          log[j].url = TrimmedUrl(log[CallOf(j)].url, log[MatchOf(j)].val)
    /\ \A m \in LogIdx :
          (log[m].e \in {"layer", "done"} \/ (log[m].e = "handler" /\ log[m].ri > 0))
              => log[m].url = log[log[m].hid].url

\* the pathname of a url after its scheme and host
PathAfter(u) ==
    LET p == UpToQuery(SubstrFrom(u, Len(SchemeHost(u))))
    IN  IF p = <<>> THEN <<"/">> ELSE p

\* C10: for a request url that begins with a scheme and host, patterns are
\* matched only against the pathname after them, and ctx.url as every
\* handler sees it begins with the unchanged scheme and host; a "://" after
\* a leading "/" or inside the query string is no scheme and host: such a
\* url is trimmed from its start.
C10_SchemeHost ==
    /\ \A j \in HandlerStarts :
          StartsWith(log[j].url, SchemeHost(log[1].url))
    /\ \A l \in LogIdx :
          (log[l].e = "layer" /\ log[l].hid = 1 /\ SchemeHost(log[1].url) # <<>>) =>
              LET layer == routers[log[l].r].stack[log[l].li]
              IN  /\ StartsWith(PathAfter(log[1].url), log[l].val)
                  /\ \/ fast_slash(layer)
                     \/ fast_star(layer)
                     \/ RegexpExec(layer.path, layer.end, PathAfter(log[1].url)).ok
    /\ \A j \in TrimmedStarts :
          (CallOf(j) = 1 /\ log[1].url[1] = "/") =>
              /\ log[j].url[1] = "/"
              /\ log[j].url = <<"/">> \o SubstrFrom(log[1].url, Len(log[MatchOf(j)].val))
                 \/ log[j].url = SubstrFrom(log[1].url, Len(log[MatchOf(j)].val))

(***************************************************************************)
(* The fields a Router saves and restores.                                 *)
(***************************************************************************)
\* the done events: the calls of the continuation a handle call was given
Dones == {d \in LogIdx : log[d].e = "done"}

\* C11: whenever Router.handle invokes the continuation it was given,
\* ctx.baseUrl, ctx.params and ctx.next hold the values they had when that
\* handle call was entered, whatever layers matched, however deep the nested
\* Routers went and whichever signal ended the scan.
C11_Restored ==
    /\ \A d \in Dones :
          /\ log[d].baseUrl = log[log[d].hid].baseUrl
          /\ log[d].params = log[log[d].hid].params
          /\ log[d].next = log[log[d].hid].next
    /\ pc = "finished" =>
          /\ ctx.baseUrl = log[1].baseUrl
          /\ ctx.params = log[1].params
          /\ ctx.next = log[1].next

\* a mounted Router entered with a trimmed baseUrl and the captures of its
\* mount matched a layer of its own, was ended by 'router', and gave back
\* the fields it was entered with
C11_Witness ==
    \E d \in Dones :
        /\ log[d].hid > 1
        /\ log[log[d].hid].baseUrl # <<>>
        /\ log[log[d].hid].params # EmptyParams
        /\ \E m \in LogIdx :
              /\ m < d /\ log[m].hid = log[d].hid
              /\ log[m].e = "handler" /\ log[m].out = "router"
              /\ log[m].params # log[d].params
              /\ log[m].next # log[d].next

\* a continuation call made at the end of a scan that had verbs to answer an
\* OPTIONS request with
Answered(d) == ctx.method = "OPTIONS" /\ Len(log[d].val) > 0

\* the comma-joined verbs: "GET,HEAD,POST" as a sequence of verbs and commas
RECURSIVE CommaJoined(_)
CommaJoined(verbs) ==
    IF verbs = <<>> THEN <<>>
    ELSE IF Tail(verbs) = <<>> THEN verbs
    ELSE <<Head(verbs), ",">> \o CommaJoined(Tail(verbs))

\* what C12 says of the context at the end of a scan: with verbs for an
\* OPTIONS request the Allow header and the body are the comma-joined verbs,
\* and in every case the saved fields are restored
C12_Written ==
    \A d \in Dones :
        /\ Answered(d) => /\ log[d].allow = CommaJoined(log[d].val)
                          /\ log[d].body = CommaJoined(log[d].val)
        /\ log[d].baseUrl = log[log[d].hid].baseUrl
        /\ log[d].params = log[log[d].hid].params
        /\ log[d].next = log[log[d].hid].next

\* C12: when the scan of a Router.handle call ends (the stack is exhausted or
\* the signal is 'router') for an OPTIONS request with at least one
\* accumulated verb, the Router writes the Allow header and the body as the
\* comma-joined verbs and does not invoke the continuation it was given; in
\* every other case that ends the scan it restores the saved fields and
\* invokes the continuation.
C12_OptionsAnswer ==
    /\ C12_Written
    /\ \A d \in Dones : ~Answered(d)

\* the verbs the first k layers of Router r offer an OPTIONS request for this
\* path and query, in stack order, repeats included: those of the Routes
\* whose path and query match and that do not handle OPTIONS
RECURSIVE Offered(_, _, _, _)
Offered(r, k, path, q) ==
    IF k = 0 THEN <<>>
    ELSE LET layer == routers[r].stack[k]
         IN  Offered(r, k - 1, path, q) \o
               (IF /\ layer.isRoute
                   /\ PathMatches(layer, path)
                   /\ Satisfies(layer.query, q)
                   /\ ~handles_method(layer, "OPTIONS")
                THEN route_options(layer) ELSE <<>>)

\* a list without its repeats, each element where it first stood
RECURSIVE FirstSeen(_)
FirstSeen(list) ==
    IF list = <<>> THEN <<>>
    ELSE LET front == FirstSeen(SubSeq(list, 1, Len(list) - 1))
         IN  IF SeqHas(front, list[Len(list)]) THEN front
             ELSE Append(front, list[Len(list)])

\* C13: for an OPTIONS request the verb list a Router.handle call has
\* accumulated is exactly the de-duplicated union, in first-seen order, of
\* the _options() of the Route layers its scan visited that matched the path
\* and the query but do not handle OPTIONS; use layers and Routes registered
\* with all contribute nothing, so '_ALL' is never among the verbs.
C13_Accumulated ==
    /\ \A d \in 1..Len(frames) :
          (frames[d].kind = "router" /\ ctx.method = "OPTIONS") =>
              frames[d].options =
                  FirstSeen(Offered(frames[d].r, frames[d].idx,
                                    getPathname(log[frames[d].hid].url), ctx.query))
    /\ \A d \in Dones :
          ctx.method = "OPTIONS" =>
              /\ log[d].val = FirstSeen(Offered(log[d].r, log[d].k,
                                                getPathname(log[log[d].hid].url),
                                                ctx.query))
              /\ ~SeqHas(log[d].val, "_ALL")

\* an OPTIONS request went through two GET Routes and a POST Route: the
\* second GET Route adds nothing to the list
C13_Witness ==
    \E d \in Dones :
        /\ Answered(d)
        /\ log[d].val = <<"GET", "HEAD", "POST">>
        /\ \E i, j, l \in 1..Len(routers[1].stack) :
              /\ i < j /\ l # i /\ l # j
              /\ routers[1].stack[i].methods = <<"get">>
              /\ routers[1].stack[i].query = NoQuery
              /\ routers[1].stack[j].methods = <<"get">>
              /\ routers[1].stack[j].query = NoQuery
              /\ routers[1].stack[l].methods = <<"post">>

\* the handlers of Routes in the log, and the Route of one
RouteRuns == {j \in LogIdx : log[j].e = "handler" /\ log[j].ri > 0}
RouteOf(j) == routers[log[j].r].stack[log[j].li]
SameDispatch(j, k) == log[j].hid = log[k].hid /\ log[j].li = log[k].li

\* layer ri of a Route is one its walk stops at: its verb is the effective
\* verb of the request, or it was registered with all, and its query
\* condition is satisfied
WalkStops(route, ri) ==
    VerbMatches(route, ri, ctx.method) /\ Satisfies(route.stack[ri].query, ctx.query)

\* the first layer after ri the walk of a Route stops at (0: none)
NextStop(route, ri) ==
    IF \E i \in ri + 1..Len(route.stack) : WalkStops(route, i)
    THEN CHOOSE i \in ri + 1..Len(route.stack) :
            /\ WalkStops(route, i)
            /\ \A i2 \in ri + 1..i - 1 : ~WalkStops(route, i2)
    ELSE 0

\* C14: Route.dispatch walks the Route's layers strictly in registration
\* order from the first; a layer tagged with a verb other than the effective
\* verb is skipped, a layer whose query condition fails is skipped, a layer
\* registered with all runs for every verb, and each following eligible
\* layer runs only after the handler invoked before it called its
\* continuation with no signal (and then it does run).
C14_RouteOrder ==
    /\ \A j \in RouteRuns :
          /\ WalkStops(RouteOf(j), log[j].ri)
          /\ \A i \in 1..log[j].ri - 1 :
                WalkStops(RouteOf(j), i) =>
                    \E k \in RouteRuns :
                        /\ k < j /\ SameDispatch(j, k) /\ log[k].ri = i
                        /\ log[k].out = None
    /\ \A j, k \in RouteRuns :
          (j < k /\ SameDispatch(j, k)) => log[j].ri < log[k].ri
    /\ \A j \in RouteRuns :
          (log[j].out = None /\ NextStop(RouteOf(j), log[j].ri) # 0) =>
              IF j = Len(log)
              THEN /\ Top.kind = "route"
                   /\ Top.hid = log[j].hid /\ Top.li = log[j].li
                   /\ \/ pc = "routeNext" /\ Top.idx = log[j].ri
                      \/ /\ pc = "middleware"
                         /\ Top.idx = NextStop(RouteOf(j), log[j].ri)
              ELSE /\ log[j + 1].e = "handler"
                   /\ SameDispatch(j, j + 1)
                   /\ log[j + 1].ri = NextStop(RouteOf(j), log[j].ri)

\* a GET request ran the get layer of a Route and then, the get handler
\* having called its continuation, the layer registered with all after it
C14_Witness ==
    \E j, k \in RouteRuns :
        /\ j < k /\ SameDispatch(j, k)
        /\ ctx.method = "GET"
        /\ log[j].ri = 1 /\ RouteOf(j).stack[1].method = "get"
        /\ log[k].ri = 2 /\ RouteOf(j).stack[2].method = Undef

\* the Routes registered, and what their layers are tagged with
Routes ==
    {p \in RouterIds \X (1..MaxLayers) :
        p[2] <= Len(routers[p[1]].stack) /\ routers[p[1]].stack[p[2]].isRoute}
HasLayer(route, tag) == \E i \in 1..Len(route.stack) : route.stack[i].method = tag

Verbs == {"GET", "POST", "HEAD", "OPTIONS"}

\* C15: _handles_method(v) is true exactly when the Route has a layer
\* registered with all, or a layer tagged v, or v is HEAD and the Route has
\* a GET layer and no HEAD layer; and Route.dispatch, for a HEAD request,
\* invokes the Route's GET layers exactly when the Route has no HEAD layer.
C15_HeadFallback ==
    /\ \A p \in Routes : \A v \in Verbs :
          LET route == routers[p[1]].stack[p[2]]
          IN  handles_method(route, v) <=>
                 \/ HasLayer(route, Undef)
                 \/ HasLayer(route, Lower(v))
                 \/ v = "HEAD" /\ HasLayer(route, "get") /\ ~HasLayer(route, "head")
    /\ \A j \in RouteRuns :
          (ctx.method = "HEAD" /\ RouteOf(j).stack[log[j].ri].method = "get")
              => ~HasLayer(RouteOf(j), "head")
    /\ \A h \in Calls : \A p \in RouteHandlers(log[h].r) :
          LET route == routers[log[h].r].stack[p[1]]
          IN  (/\ ctx.method = "HEAD"
               /\ route.stack[p[2]].method = "get"
               /\ ~HasLayer(route, "head")
               /\ Completed(h)
               /\ PathMatches(route, getPathname(log[h].url))
               /\ Satisfies(route.query, ctx.query)
               /\ Satisfies(route.stack[p[2]].query, ctx.query)
               /\ ~Diverted(h, p[1], p[2]))
                  => Invoked(h, p[1], p[2])

\* a HEAD request ran the head layer of a Route that also has a get layer;
\* the head handler called its continuation and the dispatch ended with the
\* get layer passed over
C15_Witness ==
    /\ ctx.method = "HEAD"
    /\ pc = "finished"
    /\ \E k \in RouteRuns :
          /\ HasLayer(RouteOf(k), "get")
          /\ RouteOf(k).stack[log[k].ri].method = "head"
          /\ log[k].out = None
          /\ \A j \in RouteRuns : RouteOf(j).stack[log[j].ri].method # "get"

\* the Route the Router is about to dispatch into, or is walking
TopRoute == routers[Top.r].stack[Top.li]

\* a step of Route.dispatch on a Route with no layer: the continuation (the
\* Router's scan) is called with no signal and no handler runs
EmptyRouteStep ==
    (pc = "dispatch" /\ Len(TopRoute.stack) = 0) =>
        /\ pc' = "router_next" /\ sig' = None
        /\ log' = log /\ frames' = frames /\ ctx' = ctx

\* a step of routeNext with no signal and no layer left to stop at: the walk
\* is over, the continuation is called with no signal and the walk is gone
WalkEndStep ==
    (/\ pc = "routeNext" /\ sig = None
     /\ NextStop(TopRoute, Top.idx) = 0) =>
        /\ pc' = "router_next" /\ sig' = None
        /\ log' = log /\ ctx' = ctx
        /\ frames' = Pop /\ frames'[Len(frames')].kind = "router"

\* C16: Route.dispatch invokes its continuation with no signal, and no
\* handler, when the Route has no layer; and when the walk passes the last
\* layer (the layers left are all skipped, or the last handler invoked called
\* its continuation with no signal) it invokes its continuation with no
\* signal, exactly once.
C16_RouteEnds == [][EmptyRouteStep /\ WalkEndStep]_vars

\* a HEAD request was dispatched into a Route with no layer, which went on
\* to the next Route; its only handler called its continuation and the
\* Router's scan ended
C16_Witness ==
    /\ pc = "finished"
    /\ \E l \in LogIdx : \E j \in RouteRuns :
          /\ log[l].e = "layer" /\ RouteOf(l).isRoute
          /\ Len(RouteOf(l).stack) = 0
          /\ l < j
          /\ log[j].ri = Len(RouteOf(j).stack) /\ log[j].out = None
          /\ log[j + 1].e = "done"

\* C17: Layer.queryMatch returns true for a layer with no query condition or
\* an empty one; otherwise it returns true exactly when every declared key
\* is met by the request's value for that key: a string by equality, a
\* regular expression by testing the value, a sequence of strings by
\* membership, a predicate function by the truthiness of its result, any
\* other declared value by strict equality with the value parsed as JSON,
\* where a value that does not parse (a missing one included) is no match.
C17_QueryMatch ==
    probe.at = "asked" =>
        IF ~probe.given.defined \/ Len(probe.given.entries) = 0
        THEN probe.result = TRUE
        ELSE probe.result = Satisfies(probe.given.entries, probe.actualQuery)

\* a condition of two keys, false for the one and the text "2" for the
\* other, was asked about a query that has both and answered true
C17_Witness ==
    /\ probe.at = "asked"
    /\ probe.result = TRUE
    /\ Len(probe.given.entries) = 2
    /\ probe.given.entries[1] = Declared("state", JSBoolean(FALSE))
    /\ probe.given.entries[2].expected.t = "string"
    /\ probe.actualQuery["state"] = FalseText

\* the middleware arguments of a registration call: those after the optional
\* query condition of use([path,] [query,] ...middleware) and of the verb
\* methods, which is a first argument that is truthy and not a function
HandlerArgs(args) ==
    IF args # <<>> /\ args[1].t # "null" /\ args[1].t # "function"
    THEN Tail(args) ELSE args

\* every layer of every Router and Route wraps a function
AllCallable ==
    \A r \in RouterIds : \A i \in 1..Len(routers[r].stack) :
        /\ routers[r].stack[i].handle = "function"
        /\ \A k \in 1..Len(routers[r].stack[i].stack) :
              routers[r].stack[i].stack[k].handle = "function"

\* C18: a registration call (Router.use, Route.all, Route.VERB, Router.VERB)
\* given a value that is not callable as a middleware or handler, and a
\* Router.use given no middleware function at all, raises a configuration
\* error during the call; so every layer ever in the stack of a Router or a
\* Route wraps a callable handler, and no dispatch reaches one that is not.
C18_Registration ==
    /\ (/\ reg.call.op \in {"use", "method", "verb"}
        /\ \/ NotAllFunctions(HandlerArgs(reg.call.args))
           \/ reg.call.op = "use" /\ HandlerArgs(reg.call.args) = <<>>)
          => (reg.raised /\ pc = "threw")
    /\ AllCallable

(***************************************************************************)
(* Errors raised by user code.                                             *)
(***************************************************************************)
\* the user code that raised
Throws ==
    {t \in 1..Len(log) :
        log[t].e \in {"handler", "param"} /\ log[t].out \in {"throw", "reject"}}

\* the continuation calls that enclose event t: the user code invoked before
\* it called its continuation, and everything after ran inside that call
Enclosing(t) ==
    {j \in 1..(t - 1) :
        /\ log[j].e \in {"handler", "param"}
        /\ log[j].out \in {None, "route", "router", "other"}}

\* event j is the rejection of the n-th enclosing call of t, counted from the
\* innermost, with the error the call before it raised
RejectsNth(t, j, n) ==
    /\ log[j].e = "catch"
    /\ log[j].k \in Enclosing(t)
    /\ Cardinality({k \in Enclosing(t) : k >= log[j].k}) = n
    /\ log[j].val = <<IF n = 1 THEN Boom ELSE log[j - 1].out>>
    /\ log[j].out = None => j = Len(log)

\* C19: when a handler or a parameter callback raises, by a throw or by a
\* rejected promise, nothing registered after it is invoked for the request
\* and the continuation the Router was given is not called; the error comes
\* back as a rejection through the enclosing continuation calls, the
\* innermost first, each seeing the error the one before it let through or
\* raised in its place, and the host's call rejects with the last of them
\* unless one of them caught it
C19_Rejection ==
    \A t \in Throws :
        /\ pc \in {"rejecting", "rejected", "settled"}
        /\ \A j \in (t + 1)..Len(log) : RejectsNth(t, j, j - t)
        /\ pc = "rejecting" => sig = IF t = Len(log) THEN Boom
                                     ELSE log[Len(log)].out
        /\ pc = "settled" => t < Len(log) /\ log[Len(log)].out = None
        /\ pc = "rejected" =>
              /\ Len(log) - t = Cardinality(Enclosing(t))
              /\ sig = IF t = Len(log) THEN Boom ELSE log[Len(log)].out

\* a Route's handler raises under two middlewares that called next(): the
\* inner one raises another error in its place and the host's call rejects
\* with that one
C19_Witness ==
    /\ pc = "rejected"
    /\ sig = Oops
    /\ \E t \in Throws :
         /\ log[t].e = "handler" /\ log[t].ri > 0
         /\ Len(log) = t + 2
         /\ log[t + 1].val = <<Boom>> /\ log[t + 1].out = Oops
         /\ log[t + 2].val = <<Oops>> /\ log[t + 2].out = Oops
         /\ log[t + 2].k < log[t + 1].k

(***************************************************************************)
(* routes(false) of a Router with a prefix.                                *)
(***************************************************************************)
\* the host called the middleware routes(false) made around Router 2
ThroughWrapper == Len(log) > 0 /\ log[1].e = "handle" /\ log[1].r = Wrapper

\* the path of url u starts with the prefix, and a "/" or nothing follows
Under(u, prefix) ==
    /\ StartsWith(PathAfter(u), prefix)
    /\ \/ Len(PathAfter(u)) = Len(prefix)
       \/ PathAfter(u)[Len(prefix) + 1] = "/"

\* what Router 2 has seen: the starts of its handle calls and the layers its
\* scans matched
SeenByRouter == {j \in 1..Len(log) : log[j].r = 2 /\ log[j].e \in {"handle", "layer"}}

\* C20: the middleware routes(false) returns for a Router with a non-empty
\* prefix P behaves as the Router mounted at P in a new parent Router: for a
\* request whose path does not start with P up to a separator, nothing of
\* the Router is invoked and the continuation is called with the url as it
\* was; for a path under P the Router runs, its layers are matched against
\* the url with P trimmed, with ctx.baseUrl extended by P, and the url and
\* baseUrl are as they were when the continuation is called
C20_RoutesFalse ==
    ThroughWrapper =>
        /\ routers[2].prefix # <<>>
        /\ ~Under(log[1].url, routers[2].prefix) =>
              /\ \A j \in 1..Len(log) : log[j].r # 2
              /\ pc \in {"router_next", "finished"}
        /\ \A j \in SeenByRouter :
              /\ Under(log[1].url, routers[2].prefix)
              /\ log[j].url = TrimmedUrl(log[1].url, routers[2].prefix)
              /\ log[j].baseUrl = routers[2].prefix
              /\ log[j].e = "layer" =>
                    PathMatches(routers[2].stack[log[j].li],
                                PathAfter(TrimmedUrl(log[1].url, routers[2].prefix)))
        /\ pc = "finished" =>
              /\ Under(log[1].url, routers[2].prefix) =>
                    \E j \in SeenByRouter : log[j].e = "handle"
              /\ log[Len(log)].e = "done" /\ log[Len(log)].hid = 1
              /\ log[Len(log)].url = log[1].url
              /\ log[Len(log)].baseUrl = log[1].baseUrl
              /\ ctx.url = log[1].url

\* Router 2 has the prefix /a and a Route get('/b'); the host asks the
\* middleware of routes(false) for /a/b: the Route's handler sees the url /b
\* and the baseUrl /a, and the continuation runs with the url /a/b
C20_Witness ==
    /\ pc = "finished"
    /\ ThroughWrapper
    /\ routers[2].prefix = PA
    /\ log[1].url = UrlAB
    /\ ctx.url = UrlAB
    /\ \E j \in 1..Len(log) :
         /\ log[j].e = "handler" /\ log[j].r = 2 /\ log[j].ri > 0
         /\ log[j].url = UrlB /\ log[j].baseUrl = PA

(***************************************************************************)
(* use(M, routes()) of a Router with a prefix.                             *)
(***************************************************************************)
\* M followed by P with one "/" where they meet
Joined(m, p) ==
    (IF m[Len(m)] = "/" THEN SubstrTo(m, Len(m) - 1) ELSE m)
      \o <<"/">> \o (IF p[1] = "/" THEN SubstrFrom(p, 1) ELSE p)

\* the last registration call mounted a Router with a prefix
MountedPrefix ==
    /\ reg.call.op = "use" /\ ~reg.raised
    /\ Len(reg.call.args) = 1 /\ reg.call.args[1].mount # 0
    /\ routers[reg.call.args[1].mount].prefix # <<>>

\* the layers of Router 1 that mount Router 2
Mounts == {i \in 1..Len(routers[1].stack) : routers[1].stack[i].mount = 2}

\* C21: use(M, router.routes()) of a Router with the prefix P makes a layer
\* whose pattern is M followed by P with a single "/" where they meet, and
\* the Router is entered only for request paths under that pattern, with the
\* url trimmed by it
C21_PrefixJoin ==
    /\ MountedPrefix =>
          routers[reg.call.r].stack[Len(routers[reg.call.r].stack)].path =
            Joined(reg.call.path, routers[reg.call.args[1].mount].prefix)
    /\ family = "joins" =>
          \A j \in 1..Len(log) :
              log[j].e = "handle" /\ log[j].r = 2 =>
                /\ Under(log[1].url, Joined(PB, routers[2].prefix))
                /\ log[j].url = TrimmedUrl(log[1].url, Joined(PB, routers[2].prefix))

(***************************************************************************)
(* mergeParams.                                                            *)
(***************************************************************************)
\* the number of positional captures of an object, which are 0, 1, ... in a
\* row
Positionals(params) ==
    Cardinality({k \in 0..(Len(PosKeys) - 1) : Pos(k) \in DOMAIN params})

IsPositional(n) == \E k \in 0..(Len(PosKeys) - 1) : n = Pos(k)

\* both sides have a capture 0
BothPositional(params, parent) ==
    Pos(0) \in DOMAIN params /\ Pos(0) \in DOMAIN parent

\* C22: with mergeParams the params a matched layer's handler sees hold
\* every key of the params the Router was entered with, with the parent's
\* value unless the layer captured the same key, which then has the layer's
\* value; when both sides have a positional capture 0 no positional capture
\* of the parent is overwritten: the layer's capture k is at k plus the
\* number of the parent's positional captures, in the layer's order
C22_MergeParams ==
    (probe.at = "merged" /\ probe.parentParams # NoParams) =>
        /\ \A n \in DOMAIN probe.parentParams :
              /\ n \in DOMAIN probe.merged
              /\ probe.merged[n] =
                    IF n \in DOMAIN probe.params
                       /\ ~(IsPositional(n)
                            /\ BothPositional(probe.params, probe.parentParams))
                    THEN probe.params[n] ELSE probe.parentParams[n]
        /\ \A n \in DOMAIN probe.params :
              IF IsPositional(n) /\ BothPositional(probe.params, probe.parentParams)
              THEN \A k \in 0..(Positionals(probe.params) - 1) :
                     /\ Pos(k + Positionals(probe.parentParams)) \in DOMAIN probe.merged
                     /\ probe.merged[Pos(k + Positionals(probe.parentParams))] =
                          probe.params[Pos(k)]
              ELSE n \in DOMAIN probe.merged /\ probe.merged[n] = probe.params[n]
        /\ Cardinality(DOMAIN probe.merged) =
              Cardinality(DOMAIN probe.params \cup DOMAIN probe.parentParams)
              + (IF BothPositional(probe.params, probe.parentParams)
                 THEN IF Positionals(probe.params) < Positionals(probe.parentParams)
                      THEN Positionals(probe.params)
                      ELSE Positionals(probe.parentParams)
                 ELSE 0)

\* the parent has the captures 0, 1 and u, the layer 0, 1, u and v: the
\* layer's 0 and 1 are at 2 and 3, and u is the layer's
C22_Witness ==
    /\ probe.at = "merged"
    /\ DOMAIN probe.parentParams = {"0", "1", "u"}
    /\ DOMAIN probe.params = {"0", "1", "u", "v"}
    /\ probe.merged = [n \in {"0", "1", "2", "3", "u", "v"} |->
                         IF n \in {"0", "1"} THEN <<"parent", n>>
                         ELSE IF n = "2" THEN <<"child", "0">>
                         ELSE IF n = "3" THEN <<"child", "1">>
                         ELSE <<"child", n>>]

(***************************************************************************)
(* The depth of the calls of a scan.                                       *)
(***************************************************************************)
\* the first handler of the dispatch is about to run, in a layer of Router 1
\* with no parameter: the scan has passed over the layers before it
FirstHandler ==
    /\ pc = "middleware"
    /\ Len(log) = 2
    /\ log[2].e = "layer" /\ log[2].r = 1
    /\ LayerKeys(routers[1].stack[log[2].li].path) = <<>>

\* C23: the scan of a Router adds no call for a layer it passes over: the
\* first handler to run is reached at the same depth of calls whatever the
\* number of layers registered before its layer (handle, router_next,
\* process_params, its continuation, then trim_prefix for a bare layer, and
\* for a Route dispatch and one routeNext for each layer of the Route up to
\* the handler's)
C23_ScanDepth ==
    FirstHandler => depth = IF Top.kind = "route" THEN 5 + Top.idx ELSE 5

\* the handler of the third layer of Router 1, a Route, is reached at depth 6
\* after the scan passed over two layers
C23_Witness ==
    /\ FirstHandler
    /\ log[2].li = 3
    /\ Top.kind = "route" /\ Top.idx = 1
    /\ depth = 6

(***************************************************************************)
(* Two requests in flight.                                                 *)
(***************************************************************************)
\* the value of :u in a url /a/:u/...
OwnValue(u) == <<u[4]>>

\* the params, the matched prefix, the urls and the parameter memo of a
\* request are those of the url it came with
OwnEvent(ev, u) ==
    /\ \/ ev.params \in {NoParams, EmptyParams}
       \/ DOMAIN ev.params = {"u"} /\ ev.params["u"] = OwnValue(u)
    /\ ev.e = "param" => ev.val = OwnValue(u)
    /\ (ev.e = "layer" /\ ev.r = 1) => SubstrTo(ev.val, 4) = SubstrTo(u, 4)
    /\ ev.url \in {u, UrlB}
    /\ ev.baseUrl \in {UndefStr, <<>>, SubstrTo(u, 4)}

OwnMemo(f, u) ==
    f.kind = "router" =>
        \A n \in DOMAIN f.paramcalled :
            /\ f.paramcalled[n].match = OwnValue(u)
            /\ f.paramcalled[n].value = OwnValue(u)

Own(c, fr, lg) ==
    lg # <<>> =>
        /\ \A j \in 1..Len(lg) : OwnEvent(lg[j], lg[1].url)
        /\ \A k \in 1..Len(fr) : OwnMemo(fr[k], lg[1].url)
        /\ c.originalUrl = lg[1].url
        /\ c.url \in {lg[1].url, UrlB}
        /\ c.baseUrl \in {UndefStr, <<>>, SubstrTo(lg[1].url, 4)}
        /\ \/ c.params \in {NoParams, EmptyParams}
           \/ DOMAIN c.params = {"u"} /\ c.params["u"] = OwnValue(lg[1].url)

\* C24: with two requests in flight on the same Router, taking turns
\* wherever user code runs, the params, the trimmed prefix, url, baseUrl and
\* originalUrl and the parameter memo of each request come from its own url
C24_OwnValues ==
    family = "parallel" =>
        /\ Own(ctx, frames, log)
        /\ Own(parked.ctx, parked.frames, parked.log)

\* both requests are done, for different urls; the first one got as far as
\* its parameter callback, the second ran up to its own and was set aside,
\* and the first went on
C24_Witness ==
    /\ family = "parallel"
    /\ pc = "finished" /\ parked.pc = "finished"
    /\ log[1].url # parked.log[1].url
    /\ \E j \in 1..Len(log) :
         log[j].e = "handler" /\ log[j].r = 2 /\ log[j].ri > 0
    /\ \E j \in 1..Len(parked.log) :
         parked.log[j].e = "handler" /\ parked.log[j].r = 2 /\ parked.log[j].ri > 0
    /\ \E i \in 1..Len(scratch[1]) :
         scratch[1][i].params # NoParams

(***************************************************************************)
(* The end of a dispatch.                                                  *)
(***************************************************************************)
\* the calls of the continuation the host gave to Router.handle
OriginalCalls == {d \in Dones : log[d].hid = 1}

\* user code that was called and will never call its continuation, or that
\* raised
Pending == pc = "stalled"
Raising == pc \in {"rejecting", "rejected", "settled"}

C26_OriginalUrl ==
    log # <<>> => ctx.originalUrl = log[1].url

\* a handler of a mounted Router runs with a trimmed url
C26_Witness ==
    /\ pc = "middleware"
    /\ Len(frames) >= 2
    /\ log[Top.hid].e = "handle" /\ Top.hid > 1
    /\ ctx.url # log[1].url
    /\ ctx.originalUrl = log[1].url

(***************************************************************************)
(* A request without a pathname.                                           *)
(***************************************************************************)
\* the dispatch is that of a request whose url is missing or blank
Pathless == log # <<>> /\ log[1].url \in {UrlBlank, UrlMissing}

\* C27: for a request whose url is missing or blank, Router.handle looks at
\* no layer and runs no handler, not even a middleware mounted at the root;
\* it raises nothing; and it calls the continuation it was given with
\* ctx.baseUrl, ctx.params and ctx.next as it found them.
C27_NoPathname ==
    Pathless =>
        /\ \A j \in LogIdx : log[j].e \in {"handle", "done"} /\ log[j].hid = 1
        /\ pc \in {"router_next", "finished"}
        /\ pc = "router_next" => Len(log) = 1
        /\ pc = "finished" =>
              /\ Len(log) = 2 /\ log[2].e = "done"
              /\ ctx.baseUrl = log[1].baseUrl
              /\ ctx.params = log[1].params
              /\ ctx.next = log[1].next

\* a Router with a middleware at the root has called the continuation of a
\* request with no url
C27_Witness ==
    /\ Pathless
    /\ log[1].url = UrlMissing
    /\ pc = "finished"
    /\ \E i \in 1..Len(routers[1].stack) :
          fast_slash(routers[1].stack[i]) /\ ~routers[1].stack[i].isRoute

(***************************************************************************)
(* A Route that does not handle the verb.                                  *)
(***************************************************************************)
\* the layers router_next took for matching: it copied their values, set
\* ctx.route and called process_params
Taken == {j \in LogIdx : log[j].e = "layer"}
TakenLayer(j) == routers[log[j].r].stack[log[j].li]

\* Route.dispatch has been called for these
Dispatched == {k \in 1..Len(frames) : frames[k].kind = "route"}

\* C28: a layer whose Route does not handle the verb of the request, HEAD
\* included, is passed over: router_next does not take it for a match (no
\* parameter callback runs for it, ctx.route is not set to it) and its
\* Route.dispatch is not called.
C28_UnhandledVerb ==
    /\ \A j \in Taken :
          TakenLayer(j).isRoute => handles_method(TakenLayer(j), ctx.method)
    /\ \A k \in Dispatched :
          handles_method(routers[frames[k].r].stack[frames[k].li], ctx.method)

(***************************************************************************)
(* The fields Layer.match leaves behind.                                   *)
(***************************************************************************)
\* C29: after Layer.match, the layer's params and path hold the captures
\* and the matched prefix of the path exactly when the call returned true;
\* when it returned false both are undefined, also when the pattern matched
\* the path and the query condition failed.
C29_MatchScratch ==
    probe.at = "matched" =>
        IF probe.match
        THEN /\ probe.params # NoParams
             /\ probe.lpath # UndefStr
             /\ StartsWith(probe.path, probe.lpath)
        ELSE /\ probe.params = NoParams
             /\ probe.lpath = UndefStr

(***************************************************************************)
(* Route._options().                                                       *)
(***************************************************************************)
\* the names _options() can return, in the order a sort puts them
SortedNames == <<"GET", "HEAD", "OPTIONS", "POST", "_ALL">>
Rank(v) == CHOOSE i \in 1..Len(SortedNames) : SortedNames[i] = v

\* the verbs a Route declares, upper-cased
DeclaredVerbs(route) == {Upper(route.methods[i]) : i \in 1..Len(route.methods)}

\* C30: for every Route, _options() lists its declared verbs upper-cased, in
\* sorted order and each once, with HEAD added exactly when get is declared
\* and head is not.
C30_Options ==
    \A p \in Routes :
        LET route == routers[p[1]].stack[p[2]]
            list == route_options(route)
        IN  /\ \A i, j \in 1..Len(list) : i < j => Rank(list[i]) < Rank(list[j])
            /\ {list[i] : i \in 1..Len(list)} =
                   DeclaredVerbs(route) \cup
                   (IF "GET" \in DeclaredVerbs(route) THEN {"HEAD"} ELSE {})

(***************************************************************************)
(* The character after the matched prefix.                                 *)
(***************************************************************************)
\* the layer events of bare layers matched with a prefix
Prefixed ==
    {m \in Taken : ~TakenLayer(m).isRoute /\ log[m].val # <<>>}

\* the character of the pathname that follows the prefix matched at m
Following(m) == CharAt(getPathname(log[m].url), Len(log[m].val))

\* C31: the middleware (or mounted Router) of a layer matched with a
\* non-empty prefix starts only if the pathname ends after the prefix or goes
\* on with '/' or '.'; if it goes on with anything else, the next thing the
\* Router does is take a later layer, with ctx.url and ctx.baseUrl as they
\* were, or end, with ctx.url as it was.
C31_Boundary ==
    /\ \A j \in HandlerStarts :
          MatchOf(j) \in Prefixed => Following(MatchOf(j)) \in {Undef, "/", "."}
    /\ \A m \in Prefixed :
          Following(m) \notin {Undef, "/", "."} =>
              IF m = Len(log)
              THEN /\ pc \in {"process_params", "param", "params_next",
                               "trim_prefix", "router_next"}
                   /\ ctx.url = log[m].url
                   /\ ctx.baseUrl = log[m].baseUrl
              ELSE /\ log[m + 1].e \in {"layer", "done"}
                   /\ log[m + 1].hid = log[m].hid
                   /\ log[m + 1].e = "layer" => log[m + 1].li > log[m].li
                   /\ log[m + 1].url = log[m].url
                   /\ log[m + 1].e = "layer" => log[m + 1].baseUrl = log[m].baseUrl

\* /^\/a/ matched /ab and was passed over, and the middleware at the root
\* after it runs with the url untouched
C31_Witness ==
    /\ pc = "middleware"
    /\ \E m \in Prefixed :
          /\ Following(m) = "b"
          /\ m + 1 = Len(log)
          /\ log[m + 1].e = "layer"
    /\ ctx.url = UrlAb

(***************************************************************************)
(* ctx.baseUrl.                                                            *)
(***************************************************************************)
\* the base url a handle call works from: the one it was entered with, ''
\* for none
EnteredWith(h) == IF log[h].baseUrl = UndefStr THEN <<>> ELSE log[h].baseUrl

\* a prefix without one trailing "/"
Unslashed(prefix) ==
    IF EndsWith(prefix, <<"/">>) THEN SubstrTo(prefix, Len(prefix) - 1)
    ELSE prefix

\* C32: a middleware (or mounted Router) matched with a non-empty prefix P
\* starts with ctx.baseUrl = B followed by P less one trailing '/', B being
\* the base url its Router was entered with; a middleware matched with the
\* empty prefix and a Route's handler start with ctx.baseUrl = B; and
\* whenever the Router takes a further layer, after a middleware called its
\* continuation, ctx.baseUrl is B.
C32_BaseUrl ==
    /\ \A j \in HandlerStarts :
          log[j].baseUrl =
              IF MatchOf(j) \in Prefixed
              THEN EnteredWith(CallOf(j)) \o Unslashed(log[MatchOf(j)].val)
              ELSE EnteredWith(CallOf(j))
    /\ \A m \in Taken : log[m].baseUrl = EnteredWith(log[m].hid)

\* a middleware of a mounted Router runs with the prefixes of both mounts,
\* and the Router above went on from its own base url afterwards
C32_Witness ==
    \E j \in HandlerStarts :
        /\ log[j].e = "handler" /\ log[j].hid > 1
        /\ MatchOf(j) \in Prefixed
        /\ EnteredWith(log[j].hid) # <<>>
        /\ Len(log[j].baseUrl) > Len(EnteredWith(log[j].hid))
        /\ \E m \in Taken : m > j /\ log[m].hid = 1

(***************************************************************************)
(* A parameter callback that signals.                                      *)
(***************************************************************************)
\* the parameter callbacks that called their continuation with a signal
Signalling ==
    {j \in LogIdx : log[j].e = "param" /\ log[j].out \in {"route", "router", "other"}}

\* C33: after a parameter callback called its continuation with a signal, no
\* further parameter callback and no handler runs for the layer: the next
\* thing that happens is that the Router ends, which it does at once on
\* 'router', or takes a later layer, which it does on 'route' unless no
\* later layer matches.
C33_ParamSignal ==
    \A j \in Signalling :
        j < Len(log) =>
            /\ log[j + 1].hid = log[j].hid
            /\ log[j + 1].e \in {"layer", "done"}
            /\ log[j + 1].e = "layer" =>
                  log[j].out # "router" /\ log[j + 1].li > log[j].li
            /\ (log[j + 1].e = "done" /\ log[j].out # "router") =>
                  log[j + 1].k = Len(routers[log[j].r].stack)
            /\ log[j].out = "router" => log[j + 1].k = log[j].li

\* the first of two callbacks of a name signalled 'route' and the Router
\* took a later layer; and a callback signalled 'router' while a later layer
\* was left
C33_Witness ==
    \/ \E j \in Signalling :
          /\ log[j].out = "route" /\ log[j].k = 1
          /\ Callbacks(log[j].r, log[j].name) > 1
          /\ j < Len(log) /\ log[j + 1].e = "layer"
          /\ pc = "finished"
          /\ \E i \in Signalling :
                log[i].out = "router" /\ log[i].li < Len(routers[log[i].r].stack)

(***************************************************************************)
(* The memo of a parameter, read off the log.                              *)
(***************************************************************************)
\* where the visit of the layer of layer event j ends: the next layer taken
\* or the end of the same call, or the end of the log
Until(j) ==
    LET later == {m \in LogIdx : /\ m > j /\ log[m].hid = log[j].hid
                                  /\ log[m].e \in {"layer", "done"}}
    IN  IF later = {} THEN Len(log) + 1
        ELSE CHOOSE m \in later : \A x \in later : m <= x

\* the callbacks of name n invoked in the same call before layer event j, and
\* those invoked for the layer of j
Prior(j, n) ==
    {m \in LogIdx : /\ m < j /\ log[m].e = "param"
                     /\ log[m].hid = log[j].hid /\ log[m].name = n}

Fresh(j, n) ==
    {m \in LogIdx : /\ j < m /\ m < Until(j) /\ log[m].e = "param"
                     /\ log[m].hid = log[j].hid /\ log[m].name = n}

\* the last callback of n invoked before the visit of layer event j ends: its
\* event holds what the memo holds, the value the callbacks were invoked
\* for (val), the value they left (params[n]) and their signal (out)
LastOf(S) == CHOOSE m \in S : \A x \in S : x <= m

IsSignal(out) == out \in {"route", "router", "other"}

\* a capture before n of the layer of j ended the layer's parameter
\* processing with a signal, so that n was not looked at
Cut(j, n) ==
    LET keys == LayerKeys(routers[log[j].r].stack[log[j].li].path)
    IN  \E p, q \in 1..Len(keys) :
            /\ q < p /\ keys[p] = n
            /\ Captured(j, keys[q]) # UndefStr
            /\ Prior(j, keys[q]) \cup Fresh(j, keys[q]) # {}
            /\ IsSignal(log[LastOf(Prior(j, keys[q]) \cup Fresh(j, keys[q]))].out)

\* the memo entry of n answers for what layer event j captured
Replays(j, n) ==
    /\ Prior(j, n) # {}
    /\ \/ log[LastOf(Prior(j, n))].val = Captured(j, n)
       \/ log[LastOf(Prior(j, n))].out \notin {None, "route"}

\* the handlers of the layer of layer event j invoked in the call of j
HandlersOf(j) ==
    {m \in LogIdx : /\ j < m /\ m < Until(j) /\ log[m].e = "handler"
                     /\ log[m].hid = log[j].hid}

\* C34: within one handle call, when a later layer captures a name whose
\* memo entry holds the identical value, or holds a different value and a
\* signal other than 'route', no callback of the name is invoked for that
\* layer, ctx.params[name] is the value the callbacks left when they last
\* ran, and the signal they raised is raised again, so that no handler of
\* the layer runs; a memo entry with a different value and no signal or the
\* signal 'route' has the callbacks run again for the value captured.
C34_Replay ==
    \A h \in Calls : \A n \in ParamNames : \A j \in Capturing(h, n) :
        (Callbacks(log[h].r, n) > 0 /\ Prior(j, n) # {} /\ ~Cut(j, n)) =>
            IF Replays(j, n)
            THEN /\ Fresh(j, n) = {}
                 /\ IsSignal(log[LastOf(Prior(j, n))].out) =>
                       (HandlersOf(j) = {} /\ ~HandlerRan(j))
                 /\ \A m \in HandlersOf(j) :
                       log[m].params[n] = log[LastOf(Prior(j, n))].params[n]
                 /\ (j = Len(log) /\ pc \in {"params_next", "router_next"}) =>
                       /\ ctx.params[n] = log[LastOf(Prior(j, n))].params[n]
                       /\ IsSignal(log[LastOf(Prior(j, n))].out) =>
                             sig = log[LastOf(Prior(j, n))].out
            ELSE (Settled(j) \/ HandlersOf(j) # {}) =>
                    \E m \in Fresh(j, n) :
                        log[m].k = 1 /\ log[m].val = Captured(j, n)

\* a dispatch has ended in which a callback rewrote the value and raised a
\* signal that is not 'route', a second layer captured the same value and a
\* third a different one, and both were answered from the memo
C34_Witness ==
    /\ pc = "finished"
    /\ \E n \in ParamNames : \E i, j \in Capturing(1, n) :
          /\ i < j
          /\ Replays(i, n) /\ Replays(j, n)
          /\ Captured(i, n) = log[LastOf(Prior(i, n))].val
          /\ Captured(j, n) # log[LastOf(Prior(j, n))].val
          /\ log[LastOf(Prior(j, n))].params[n] = Rewritten
          /\ log[LastOf(Prior(j, n))].out = "other"

(***************************************************************************)
(* A sub-Router entered more than once in one request.                     *)
(***************************************************************************)
\* the invocations of parameter callbacks of a Router entered from another
SubParams ==
    {j \in LogIdx : log[j].e = "param" /\ Parent(log[j].hid) # 0}

HandlerLayer(j) ==
    IF log[j].ri > 0 THEN routers[log[j].r].stack[log[j].li].stack[log[j].ri]
    ELSE routers[log[j].r].stack[log[j].li]

\* handle_request is about to be called on a layer whose handler declares
\* more than three parameters
AtLegacy == pc = "middleware" /\ Handling(Top).length > 3

\* C36: a handler that declares more than three parameters is never invoked
\* during dispatch, whether user code has raised or not; where it would be
\* invoked, the continuation is called with no signal, the context being
\* left as it is, so that the walk of the Route or the scan of the Router
\* goes on with the next layer.
C36_Legacy ==
    /\ [](\A j \in LogIdx : log[j].e = "handler" => HandlerLayer(j).length <= 3)
    /\ [][AtLegacy =>
            /\ log' = log /\ ctx' = ctx /\ sig' = None
            /\ pc' = IF Top.kind = "route" THEN "routeNext" ELSE "router_next"]_vars

\* a dispatch has ended in which a middleware of four parameters mounted on
\* a prefix was matched and passed, and the second handler of a Route ran
\* whose first handler declares four parameters
C36_Witness ==
    /\ pc = "finished"
    /\ \E j \in LogIdx :
          /\ log[j].e = "layer"
          /\ ~routers[log[j].r].stack[log[j].li].isRoute
          /\ routers[log[j].r].stack[log[j].li].length > 3
          /\ log[j].val # <<>>
          /\ Settled(j) /\ HandlersOf(j) = {}
    /\ \E m \in LogIdx :
          /\ log[m].e = "handler" /\ log[m].ri = 2
          /\ routers[log[m].r].stack[log[m].li].stack[1].length > 3
          /\ routers[log[m].r].stack[log[m].li].stack[1].method = "get"

(***************************************************************************)
(* The routing tables during dispatch.                                     *)
(***************************************************************************)
\* a request has been handed to the engine: registration is over
Dispatching == pc \notin {"config", "threw"}

\* what dispatch writes on the layers of a Router: for each layer the match
\* scratch fields params and path, and nothing else
ScratchOnly ==
    \A r \in RouterIds : \A i \in 1..Len(scratch[r]) :
        DOMAIN scratch[r][i] = {"params", "path"}

\* C37: Router.handle and Route.dispatch never modify the routing tables:
\* from the moment a request is handed to the engine, through dispatches
\* that complete, stall or fail, every Router's layers in their order, its
\* parameter registry and options, and every Route's layers and verbs and
\* every Layer's pattern, verb tag, query condition and handler stay as
\* registration left them; what dispatch writes on a Layer are its match
\* scratch fields params and path.
C37_Tables ==
    /\ [][(Dispatching \/ Dispatching') => routers' = routers]_vars
    /\ [](ScratchOnly)

\* an OPTIONS dispatch has ended that collected the verbs of a Route which
\* declares get and not head, and the Route declares what it did
C37_Witness ==
    /\ pc = "finished" /\ ctx.method = "OPTIONS"
    /\ \E i \in 1..Len(routers[1].stack) :
          /\ routers[1].stack[i].isRoute
          /\ routers[1].stack[i].methods = <<"get">>
          /\ scratch[1][i].path # UndefStr
    /\ \E j \in LogIdx : log[j].e = "done" /\ SeqHas(log[j].val, "HEAD")

(***************************************************************************)
(* The depth of the calls of a Route's walk.                               *)
(***************************************************************************)
\* C38: the walk of a Route adds no call for a layer it passes over because
\* of its verb or its query condition: the first handler of a Route to be
\* invoked is reached at the same depth of calls whatever the number of
\* layers registered in the Route before it (handle, router_next,
\* process_params, its continuation, dispatch and one routeNext).
C38_WalkDepth ==
    (FirstHandler /\ Top.kind = "route") => depth = 6

(***************************************************************************)
(* A registration call that raises.                                        *)
(***************************************************************************)
\* C39: a registration call that raises a configuration error (Router.use,
\* Router.VERB, Router.all, Route.VERB or Route.all given a value that is no
\* function, also after valid functions) leaves the layers of the Router
\* and the layers and verbs of the Route as they were before the call: no
\* layer of the failed call and no empty Route remains registered.
C39_Atomic ==
    [][(pc = "config" /\ pc' = "threw") => routers' = routers]_vars

(***************************************************************************)
(* The context when a rejection is observed.                               *)
(***************************************************************************)
\* the context holds the url, baseUrl, params and next that event j holds,
\* or its url and baseUrl
SameContext(c, j) ==
    /\ c.url = log[j].url /\ c.baseUrl = log[j].baseUrl
    /\ c.params = log[j].params /\ c.next = log[j].next

SameUrls(c, j) == c.url = log[j].url /\ c.baseUrl = log[j].baseUrl

\* user code that raised inside a nested Router, whose handle event holds
\* the context as it was when the Router was entered; and a middleware that
\* raised after the prefix its layer matched was trimmed, whose layer event
\* holds the context as it was before the trim
NestedThrows == {t \in Throws : Parent(log[t].hid) # 0}

TrimmedThrows ==
    {t \in Throws : /\ log[t].e = "handler" /\ log[t].ri = 0
                     /\ log[LayerOf(t)].val # <<>>}

\* the rejections of what t raised that are observed by user code invoked
\* before event e
ObservedBefore(t, e) ==
    {j \in LogIdx : j > t /\ log[j].e = "catch" /\ log[j].k < e}

\* C40: when a handler raises inside a middleware mounted on a prefix or
\* inside a nested Router, the rejection is observed, by a middleware
\* upstream or by the caller of handle, with the context restored: ctx.url
\* and ctx.baseUrl as they were before the trim, and ctx.url, ctx.baseUrl,
\* ctx.params and ctx.next as they were before the Router was entered.
C40_RestoredOnError ==
    /\ \A t \in NestedThrows :
          /\ \A j \in ObservedBefore(t, log[t].hid) :
                SameContext(log[j], log[t].hid)
          /\ pc = "rejected" => SameContext(ctx, log[t].hid)
    /\ \A t \in TrimmedThrows :
          /\ \A j \in ObservedBefore(t, LayerOf(t)) : SameUrls(log[j], LayerOf(t))
          /\ pc = "rejected" => SameUrls(ctx, LayerOf(t))
=============================================================================
